---- MODULE Spec2Model ----
(***************************************************************************)
(* Model of the AI chat backend: the provider adapters (src/services),     *)
(* and the SQLite history store (src/history.py) with its router.          *)
(*                                                                         *)
(* Python values are modelled as follows.                                  *)
(*   - a dict is a record; a key the dict lacks is a field the record      *)
(*     lacks (results) or a field holding Absent (provider JSON);          *)
(*   - None is the string None, a missing JSON key the string Absent;      *)
(*   - an Optional[int] is <<>> (None) or <<n>>;                           *)
(*   - an Optional[List] that the code only tests for truth is a sequence, *)
(*     <<>> standing for both None and [].                                 *)
(***************************************************************************)
EXTENDS Integers, Sequences, FiniteSets, TLC

VARIABLES
    clients,    \* the service singletons of dependencies.py: name -> configuration
    last,       \* the adapter call that ended last: inputs, request sent, outcome
    rows,       \* history table: the committed rows
    seq,        \* sqlite_sequence entry of the history table (AUTOINCREMENT)
    clock,      \* CURRENT_TIMESTAMP, in whole seconds
    lock,       \* the connection holding SQLite's write lock, 0 when free
    conn,       \* per caller: position and locals of its add_history call
    started,    \* add_history calls begun so far
    commits,    \* identifiers in the order their transactions committed
    returned,   \* the add_history calls that returned: call tag and identifier
    justAppended, \* the identifier add_history returned in the last step, else 0
    listed,     \* the last get_history call: arguments and rows returned
    deleted     \* the last delete_history_item request: argument and response

adapterVars == <<clients, last>>
historyVars == <<rows, seq, clock, lock, conn, started, commits, returned, justAppended,
                 listed, deleted>>
vars == <<clients, last, rows, seq, clock, lock, conn, started, commits, returned,
          justAppended, listed, deleted>>

-----------------------------------------------------------------------------
(* Python values *)

None == "<None>"
Absent == "<absent>"

\* A test for None alone, where the code tests for truth.
IsNotNone(v) == v \notin {None, Absent}

\* Python truth of a str-or-None value: None and "" are false.
Truthy(v) == v \notin {None, Absent, ""}

\* dict.get(key, default) on a provider JSON object.
Get(data, key, default) == IF data[key] = Absent THEN default ELSE data[key]

Has(r, f) == f \in DOMAIN r

\* A JSON value that is no string: a missing key, null, a list or an object.
JAbsent == [t |-> "absent"]
JNull == [t |-> "null"]
JList(items) == [t |-> "list", items |-> items]
JObj(obj) == [t |-> "obj", obj |-> obj]

\* dict.get(key, []) on a list-valued key
ItemsOr(v, default) == IF v.t = "list" THEN v.items ELSE default

-----------------------------------------------------------------------------
(* Outcomes of one adapter call *)

\* The call returned res without touching the network.
Returned(res) == [outcome |-> "returned", request |-> <<>>, result |-> res]

Sent_Retried(payload, res) ==
    [outcome |-> "returned", request |-> <<payload, payload>>, result |-> res]

\* The call sent payload and then returned res.
Sent(payload, res) == [outcome |-> "returned", request |-> <<payload>>, result |-> res]

\* The call raised exc before any request was sent.
Raised(exc) == [outcome |-> "raised", request |-> <<>>, result |-> [exception |-> exc]]

\* What the transport does with the one request of a call.
\* An exception of the transport carries its text, str(exc): the timeouts of
\* httpx come with an empty text, and so do some of its other transport errors.
TimeoutT == [kind |-> "timeout", text |-> ""]
ConnectErrorT == [kind |-> "error", text |-> "All connection attempts failed"]
ReadErrorT == [kind |-> "error", text |-> ""]
HttpError(status) == [kind |-> "http", status |-> status, text |-> "body"]
InvalidJson == [kind |-> "http", status |-> 200, json |-> [shape |-> "invalid"]]
ArrayJson == [kind |-> "http", status |-> 200, json |-> [shape |-> "array"]]
Ok(data) == [kind |-> "http", status |-> 200, json |-> [shape |-> "object", data |-> data]]

IsOk(t) == t.kind = "http" /\ t.status = 200 /\ t.json.shape = "object"

\* str(exc) of the fault a 200 body that is no JSON object causes.
BodyFault(t) == IF t.json.shape = "invalid" THEN "JSONDecodeError" ELSE "AttributeError"

ErrorStatuses == {401, 500}

BaseTransports == {TimeoutT, ConnectErrorT, ReadErrorT, InvalidJson, ArrayJson}
                      \cup {HttpError(s) : s \in ErrorStatuses}

ApiKeys == {None, "", "sk-key"}

-----------------------------------------------------------------------------
(* src/services/sora_video.py *)

Orientations == {"portrait", "landscape", "sideways", None}
Durations == {<<>>, <<15>>, <<25>>, <<10>>}
ImageLists == {<<>>, <<"img1">>}

TaskIds == {Absent, None, "", "task-1"}
CreateStatuses == {Absent, "pending", "processing", "completed", "failed", "queued"}

CreateResponses == [id : TaskIds, status : CreateStatuses]

Sora_orientation(orientation) ==
    IF orientation \notin {"portrait", "landscape"} THEN "landscape" ELSE orientation

Sora_duration_Unchecked(duration) == duration

Sora_duration(duration) ==
    IF duration \notin {<<15>>, <<25>>} THEN <<15>> ELSE duration

Sora_create_video(self, prompt, orientation, duration, images, t) ==
    IF ~Truthy(self.api_key)
    THEN Returned([success |-> FALSE, message |-> "Sora API key not configured"])
    ELSE
    LET payload == [model |-> self.model, prompt |-> prompt,
                    orientation |-> Sora_orientation(orientation), size |-> "large",
                    duration |-> Sora_duration(duration), watermark |-> FALSE,
                    private |-> TRUE, images |-> images]
        res ==
          IF t.kind = "timeout"
          THEN [success |-> FALSE, message |-> "Sora request timed out. Please try again."]
          ELSE IF t.kind = "error"
          THEN [success |-> FALSE, message |-> "Sora video creation failed: " \o t.text]
          ELSE IF t.status # 200
          THEN [success |-> FALSE,
                message |-> "Sora API error: " \o ToString(t.status) \o " - " \o t.text]
          ELSE IF ~IsOk(t)
          THEN [success |-> FALSE,
                message |-> "Sora video creation failed: " \o BodyFault(t)]
          ELSE
          LET data == t.json.data
              task_id == Get(data, "id", None)
              status == Get(data, "status", "pending")
          IN  IF ~Truthy(task_id)
              THEN [success |-> FALSE, message |-> "No task ID returned from API",
                    raw_response |-> data]
              ELSE [success |-> TRUE, task_id |-> task_id, status |-> status,
                    message |-> "video task created",
                    metadata |-> [model |-> self.model,
                                  orientation |-> Sora_orientation(orientation),
                                  duration |-> Sora_duration(duration),
                                  prompt |-> prompt]]
    IN Sent(payload, res)

QueryStatuses == {Absent, "pending", "processing", "completed", "failed", "queued"}
VideoUrls == {Absent, None, "", "http://v/1.mp4"}

QueryResponses == [status : QueryStatuses, video_url : VideoUrls]

\* The branch with the test for a video_url put first, whatever the status.
Sora_query_result_UrlFirst(result, status, video_url, doneMsg) ==
    IF Truthy(video_url)
    THEN result @@ [video_url |-> video_url, message |-> doneMsg]
    ELSE IF status = "failed"
    THEN [result EXCEPT !.success = FALSE] @@ [message |-> "video generation failed"]
    ELSE result @@ [message |-> "status: " \o status]

\* query_video's branch on the provider's status, applied to the result built so far.
Sora_query_result(result, status, video_url, doneMsg) ==
    IF status = "completed" /\ Truthy(video_url)
    THEN result @@ [video_url |-> video_url, message |-> doneMsg]
    ELSE IF status = "failed"
    THEN [result EXCEPT !.success = FALSE] @@ [message |-> "video generation failed"]
    ELSE IF status = "pending"
    THEN result @@ [message |-> "video is queued"]
    ELSE IF status = "processing"
    THEN result @@ [message |-> "video is being generated"]
    ELSE result @@ [message |-> "status: " \o status]

Sora_query_video(self, task_id, t) ==
    IF ~Truthy(self.api_key)
    THEN Returned([success |-> FALSE, message |-> "Sora API key not configured"])
    ELSE
    LET res ==
          IF t.kind = "timeout"
          THEN [success |-> FALSE, message |-> "Query request timed out. Please try again."]
          ELSE IF t.kind = "error"
          THEN [success |-> FALSE, message |-> "Failed to query video status: " \o t.text]
          ELSE IF t.status # 200
          THEN [success |-> FALSE,
                message |-> "Sora API error: " \o ToString(t.status) \o " - " \o t.text]
          ELSE IF ~IsOk(t)
          THEN [success |-> FALSE,
                message |-> "Failed to query video status: " \o BodyFault(t)]
          ELSE
          LET data == t.json.data
              status == Get(data, "status", "unknown")
              video_url == Get(data, "video_url", None)
              result == [success |-> TRUE, task_id |-> task_id, status |-> status,
                         enhanced_prompt |-> None]
          IN  Sora_query_result(result, status, video_url, "video generation completed")
    IN Sent([id |-> task_id], res)

-----------------------------------------------------------------------------
(* src/services/veo_video.py *)

VeoModels == {None, "veo3-fast-frames", "veo2-fast-frames", "veo2-fast-components", "veo3"}
AspectRatios == {"16:9", "9:16", "4:3", None}
VeoImageLists == {<<>>, <<"img1">>, <<"img1", "img2", "img3", "img4">>}

Veo_use_model(self, model) == IF Truthy(model) THEN model ELSE self.model

Veo_aspect_ratio(aspect_ratio) ==
    IF aspect_ratio \notin {"16:9", "9:16"} THEN "16:9" ELSE aspect_ratio

Veo_create_video(self, prompt, model, aspect_ratio, images, t) ==
    IF ~Truthy(self.api_key)
    THEN Returned([success |-> FALSE, message |-> "VEO API key not configured"])
    ELSE
    LET use_model == Veo_use_model(self, model)
        base == [model |-> use_model, prompt |-> prompt, enhance_prompt |-> TRUE,
                 enable_upsample |-> TRUE, aspect_ratio |-> Veo_aspect_ratio(aspect_ratio)]
        payload == IF images # <<>> THEN base @@ [images |-> images] ELSE base
        res ==
          IF t.kind = "timeout"
          THEN [success |-> FALSE, message |-> "VEO request timed out. Please try again."]
          ELSE IF t.kind = "error"
          THEN [success |-> FALSE, message |-> "VEO video creation failed: " \o t.text]
          ELSE IF t.status # 200
          THEN [success |-> FALSE,
                message |-> "VEO API error: " \o ToString(t.status) \o " - " \o t.text]
          ELSE IF ~IsOk(t)
          THEN [success |-> FALSE,
                message |-> "VEO video creation failed: " \o BodyFault(t)]
          ELSE
          LET data == t.json.data
              task_id == Get(data, "id", None)
              status == Get(data, "status", "pending")
          IN  IF ~Truthy(task_id)
              THEN [success |-> FALSE, message |-> "No task ID returned from API",
                    raw_response |-> data]
              ELSE [success |-> TRUE, task_id |-> task_id, status |-> status,
                    message |-> "VEO video task created",
                    metadata |-> [model |-> use_model,
                                  aspect_ratio |-> Veo_aspect_ratio(aspect_ratio),
                                  enhance_prompt |-> TRUE, prompt |-> prompt]]
    IN Sent(payload, res)

\* query_video's branch on the provider's status, applied to the result built so far.
Veo_query_result_AnyStatus(result, status, video_url, doneMsg) ==
    IF Truthy(video_url)
    THEN result @@ [video_url |-> video_url, message |-> doneMsg]
    ELSE IF status = "failed"
    THEN [result EXCEPT !.success = FALSE] @@ [message |-> "video generation failed"]
    ELSE result @@ [message |-> "status: " \o status]

Veo_query_result(result, status, video_url, doneMsg) ==
    IF status = "completed" /\ Truthy(video_url)
    THEN result @@ [video_url |-> video_url, message |-> doneMsg]
    ELSE IF status = "failed"
    THEN [result EXCEPT !.success = FALSE] @@ [message |-> "video generation failed"]
    ELSE IF status = "pending"
    THEN result @@ [message |-> "video is queued"]
    ELSE IF status = "processing"
    THEN result @@ [message |-> "video is being generated"]
    ELSE result @@ [message |-> "status: " \o status]

Veo_query_video(self, task_id, t) ==
    IF ~Truthy(self.api_key)
    THEN Returned([success |-> FALSE, message |-> "VEO API key not configured"])
    ELSE
    LET res ==
          IF t.kind = "timeout"
          THEN [success |-> FALSE, message |-> "Query request timed out. Please try again."]
          ELSE IF t.kind = "error"
          THEN [success |-> FALSE, message |-> "Failed to query video status: " \o t.text]
          ELSE IF t.status # 200
          THEN [success |-> FALSE,
                message |-> "VEO API error: " \o ToString(t.status) \o " - " \o t.text]
          ELSE IF ~IsOk(t)
          THEN [success |-> FALSE,
                message |-> "Failed to query video status: " \o BodyFault(t)]
          ELSE
          LET data == t.json.data
              status == Get(data, "status", "unknown")
              video_url == Get(data, "video_url", None)
              result == [success |-> TRUE, task_id |-> task_id, status |-> status,
                         enhanced_prompt |-> None]
          IN  Veo_query_result(result, status, video_url, "VEO video generation completed")
    IN Sent([id |-> task_id], res)

-----------------------------------------------------------------------------
(* Python str methods, on TLA+ strings *)

Whitespace == {" ", "\t", "\n"}

StartsWith(s, prefix) ==
    Len(s) >= Len(prefix) /\ SubSeq(s, 1, Len(prefix)) = prefix

\* A local variable: value is computed once and Rest goes on with it.
Bind(value, Rest(_)) == CHOOSE out \in {Rest(v) : v \in {value}} : TRUE

\* sub in s
Contains(s, sub) ==
    \E i \in 1..(Len(s) - Len(sub) + 1) : SubSeq(s, i, i + Len(sub) - 1) = sub

RECURSIVE LStrip(_)
LStrip(s) == IF Len(s) > 0 /\ Head(s) \in Whitespace THEN LStrip(Tail(s)) ELSE s

RECURSIVE RStrip(_)
RStrip(s) ==
    IF Len(s) > 0 /\ SubSeq(s, Len(s), Len(s)) \in Whitespace
    THEN RStrip(SubSeq(s, 1, Len(s) - 1))
    ELSE s

\* str.strip()
Strip(s) == RStrip(LStrip(s))

\* "".join(s.split()): s without its whitespace
RECURSIVE JoinSplit(_)
JoinSplit(s) ==
    IF Len(s) = 0 THEN ""
    ELSE IF Head(s) \in Whitespace THEN JoinSplit(Tail(s))
    ELSE Head(s) \o JoinSplit(Tail(s))

\* s.split(sep) for a one-character sep: the sequence of the parts
RECURSIVE SplitFrom(_, _, _)
SplitFrom(s, sep, part) ==
    IF Len(s) = 0 THEN <<part>>
    ELSE IF Head(s) = sep THEN <<part>> \o SplitFrom(Tail(s), sep, "")
    ELSE SplitFrom(Tail(s), sep, part \o Head(s))

Split(s, sep) == SplitFrom(s, sep, "")

LowerLetters == "abcdefghijklmnopqrstuvwxyz"
UpperLetters == "ABCDEFGHIJKLMNOPQRSTUVWXYZ"

UpperChar(c) ==
    IF \E i \in 1..Len(LowerLetters) : SubSeq(LowerLetters, i, i) = c
    THEN LET i == CHOOSE i \in 1..Len(LowerLetters) : SubSeq(LowerLetters, i, i) = c
         IN  SubSeq(UpperLetters, i, i)
    ELSE c

\* str.upper()
RECURSIVE Upper(_)
Upper(s) == IF Len(s) = 0 THEN "" ELSE UpperChar(Head(s)) \o Upper(Tail(s))

Digits == "0123456789"

IsDigit(c) == \E i \in 1..Len(Digits) : SubSeq(Digits, i, i) = c

DigitValue(c) == (CHOOSE i \in 1..Len(Digits) : SubSeq(Digits, i, i) = c) - 1

RECURSIVE DigitsValue(_, _)
DigitsValue(s, acc) ==
    IF Len(s) = 0 THEN acc ELSE DigitsValue(Tail(s), 10 * acc + DigitValue(Head(s)))

AllDigits(s) == Len(s) > 0 /\ \A i \in 1..Len(s) : IsDigit(SubSeq(s, i, i))

\* int(s): <<n>>, or <<>> where Python raises ValueError. Surrounding whitespace
\* and one sign are accepted (digit-group underscores are left out of the alphabet).
ParseInt(s) ==
    LET int(body) ==
            LET signed == Len(body) > 0 /\ Head(body) \in {"-", "+"}
                digits == IF signed THEN Tail(body) ELSE body
            IN  IF ~AllDigits(digits) THEN <<>>
                ELSE IF signed /\ Head(body) = "-" THEN << 0 - DigitsValue(digits, 0) >>
                ELSE << DigitsValue(digits, 0) >>
    IN  Bind(Strip(s), int)

Max(a, b) == IF a >= b THEN a ELSE b
Min(a, b) == IF a <= b THEN a ELSE b

\* int(round(n / d)) for n >= 0, d > 0: Python rounds a half to the even neighbour.
RoundDiv(n, d) ==
    LET q == n \div d
        r == n % d
    IN  IF 2 * r < d THEN q
        ELSE IF 2 * r > d THEN q + 1
        ELSE IF q % 2 = 0 THEN q ELSE q + 1

-----------------------------------------------------------------------------
(* src/services/doubao_image.py *)

\* _parse_ratio: every fault of split/int/indexing is caught and gives 1:1.
Doubao_parse_ratio(ratio) ==
    IF ratio = None THEN <<1, 1>>
    ELSE LET parts == Split(ratio, ":")
         IN  IF Len(parts) < 2 THEN <<1, 1>>
             ELSE LET w == ParseInt(parts[1])
                      h == ParseInt(parts[2])
                  IN  IF w = <<>> \/ h = <<>> THEN <<1, 1>>
                      ELSE <<Max(1, w[1]), Max(1, h[1])>>

Doubao_base_value_CaseSensitive(image_size) ==
    IF image_size = "1K" THEN 1024
    ELSE IF image_size = "2K" THEN 2048
    ELSE IF image_size = "4K" THEN 4096
    ELSE 1024

Doubao_base_value(image_size) ==
    LET key == Upper(image_size)
    IN  IF key = "1K" THEN 1024
        ELSE IF key = "2K" THEN 2048
        ELSE IF key = "4K" THEN 4096
        ELSE 1024

Doubao_dimensions_NoFloor(aspect_ratio, image_size) ==
    LET base_value == Doubao_base_value(image_size)
        dimensions(r) ==
            LET width_ratio == r[1]
                height_ratio == r[2]
                wh == IF width_ratio >= height_ratio
                      THEN <<base_value,
                             RoundDiv(base_value * height_ratio, Max(width_ratio, 1))>>
                      ELSE <<RoundDiv(base_value * width_ratio, Max(height_ratio, 1)),
                             base_value>>
            IN  <<Min(4096, wh[1]), Min(4096, wh[2])>>
    IN  Bind(Doubao_parse_ratio(aspect_ratio), dimensions)

\* The width and height _build_size formats, for an image_size that is a str.
Doubao_dimensions(aspect_ratio, image_size) ==
    LET base_value == Doubao_base_value(image_size)
        dimensions(r) ==
            LET width_ratio == r[1]
                height_ratio == r[2]
                wh == IF width_ratio >= height_ratio
                      THEN <<base_value,
                             Max(512, RoundDiv(base_value * height_ratio,
                                               Max(width_ratio, 1)))>>
                      ELSE <<Max(512, RoundDiv(base_value * width_ratio,
                                               Max(height_ratio, 1))),
                             base_value>>
            IN  <<Max(512, Min(4096, wh[1])), Max(512, Min(4096, wh[2]))>>
    IN  Bind(Doubao_parse_ratio(aspect_ratio), dimensions)

\* _build_size: <<"WxH">>, or <<>> when image_size.upper() raises AttributeError
\* (image_size is None).
Doubao_build_size(aspect_ratio, image_size) ==
    IF image_size = None THEN <<>>
    ELSE LET d == Doubao_dimensions(aspect_ratio, image_size)
         IN  << ToString(d[1]) \o "x" \o ToString(d[2]) >>

\* _ensure_data_url without the test for an existing prefix
Doubao_ensure_data_url_NoDetect(value) ==
    IF value = "" THEN value
    ELSE "data:image/png;base64," \o Strip(value)

\* _ensure_data_url on a str
Doubao_ensure_data_url(value) ==
    IF value = "" THEN value
    ELSE LET trimmed == Strip(value)
         IN  IF StartsWith(trimmed, "data:") THEN trimmed
             ELSE "data:image/png;base64," \o trimmed

\* A list item that is no str (an int of the JSON body); it is true in Python.
NonString == "<int 7>"

SelectTruthy(items) == SelectSeq(items, LAMBDA item : Truthy(item))

\* _format_image_input on a true reference: [ok, value], ok false when an item's
\* .strip() raises AttributeError. A str is [kind "str"], a list [kind "list"].
Doubao_format_image_input(reference) ==
    IF reference.kind = "list"
    THEN LET kept == SelectTruthy(reference.items)
         IN  IF \E i \in 1..Len(kept) : kept[i] = NonString
             THEN [ok |-> FALSE]
             ELSE [ok |-> TRUE, empty |-> kept = <<>>,
                   value |-> [kind |-> "list",
                              items |-> [i \in 1..Len(kept) |->
                                            Doubao_ensure_data_url(kept[i])]]]
    ELSE LET v == Doubao_ensure_data_url(reference.value)
         IN  [ok |-> TRUE, empty |-> v = "", value |-> [kind |-> "str", value |-> v]]

\* Python truth of reference_image: None, "" and [] are false.
ReferenceGiven(reference) ==
    \/ reference.kind = "str" /\ reference.value # ""
    \/ reference.kind = "list" /\ reference.items # <<>>

NoReference == [kind |-> "none"]
StrRef(s) == [kind |-> "str", value |-> s]
ListRef(items) == [kind |-> "list", items |-> items]

DoubaoImages == [b64_json : {Absent, None, "", " ", "QU JD\n"},
                 url : {Absent, "", "http://img/1.png"},
                 mime_type : {Absent, "image/png"}]

\* The JSON object of a 200 answer: its "data" key, absent or a list of 0 or 1 images.
DoubaoResponses == {[data |-> JAbsent], [data |-> JList(<<>>)]}
                       \cup {[data |-> JList(<<img>>)] : img \in DoubaoImages}

Doubao_response_UrlFirst(self, aspect_ratio, image_size, t) ==
    IF t.kind = "timeout"
    THEN [success |-> FALSE, message |-> "Doubao request timed out. Try a smaller size."]
    ELSE IF t.kind = "error"
    THEN [success |-> FALSE, message |-> "Doubao image generation failed: " \o t.text]
    ELSE IF t.status # 200
    THEN [success |-> FALSE,
          message |-> "Doubao API error: " \o ToString(t.status) \o " - " \o t.text]
    ELSE IF ~IsOk(t)
    THEN [success |-> FALSE, message |-> "Doubao image generation failed: " \o BodyFault(t)]
    ELSE
    LET data == t.json.data
        images == ItemsOr(data.data, <<>>)
    IN  IF images = <<>>
        THEN [success |-> FALSE, message |-> "Doubao API returned no images",
              raw_response |-> data]
        ELSE
        LET first_image == images[1]
            b64 == Get(first_image, "b64_json", None)
            image_data == IF Truthy(b64) THEN JoinSplit(b64) ELSE b64
            image_url == Get(first_image, "url", None)
            mime_type == IF Truthy(first_image.mime_type)
                         THEN first_image.mime_type ELSE "image/jpeg"
            metadata == [aspect_ratio |-> aspect_ratio, image_size |-> image_size,
                         model |-> self.model, service |-> "doubao-image",
                         mime_type |-> mime_type]
        IN  IF Truthy(image_url)
            THEN [success |-> TRUE, image_url |-> image_url,
                  message |-> "Doubao image generated (URL)", metadata |-> metadata]
            ELSE IF Truthy(image_data)
            THEN [success |-> TRUE, image_data |-> image_data,
                  message |-> "Doubao image generated", metadata |-> metadata]
            ELSE [success |-> FALSE, message |-> "Unknown response format",
                  raw_response |-> data]

\* The part of generate_image inside its try block, after the request was sent.
Doubao_response(self, aspect_ratio, image_size, t) ==
    IF t.kind = "timeout"
    THEN [success |-> FALSE, message |-> "Doubao request timed out. Try a smaller size."]
    ELSE IF t.kind = "error"
    THEN [success |-> FALSE, message |-> "Doubao image generation failed: " \o t.text]
    ELSE IF t.status # 200
    THEN [success |-> FALSE,
          message |-> "Doubao API error: " \o ToString(t.status) \o " - " \o t.text]
    ELSE IF ~IsOk(t)
    THEN [success |-> FALSE, message |-> "Doubao image generation failed: " \o BodyFault(t)]
    ELSE
    LET data == t.json.data
        images == ItemsOr(data.data, <<>>)
    IN  IF images = <<>>
        THEN [success |-> FALSE, message |-> "Doubao API returned no images",
              raw_response |-> data]
        ELSE
        LET first_image == images[1]
            b64 == Get(first_image, "b64_json", None)
            image_data == IF Truthy(b64) THEN JoinSplit(b64) ELSE b64
            image_url == Get(first_image, "url", None)
            mime_type == IF Truthy(first_image.mime_type)
                         THEN first_image.mime_type ELSE "image/jpeg"
            metadata == [aspect_ratio |-> aspect_ratio, image_size |-> image_size,
                         model |-> self.model, service |-> "doubao-image",
                         mime_type |-> mime_type]
        IN  IF Truthy(image_data)
            THEN [success |-> TRUE, image_data |-> image_data,
                  message |-> "Doubao image generated", metadata |-> metadata]
            ELSE IF Truthy(image_url)
            THEN [success |-> TRUE, image_url |-> image_url,
                  message |-> "Doubao image generated (URL)", metadata |-> metadata]
            ELSE [success |-> FALSE, message |-> "Unknown response format",
                  raw_response |-> data]

\* generate_image: the payload is built before the try block, so a fault of
\* _build_size or _format_image_input leaves the call as an exception.
Doubao_generate_image(self, prompt, aspect_ratio, image_size, reference_image, size, t) ==
    IF ~Truthy(self.api_key)
    THEN Returned([success |-> FALSE, message |-> "Doubao API key not configured"])
    ELSE
    LET built == IF Truthy(size) THEN <<size>>
                 ELSE Doubao_build_size(aspect_ratio, image_size)
        formatted == IF ReferenceGiven(reference_image)
                     THEN Doubao_format_image_input(reference_image)
                     ELSE [ok |-> TRUE, empty |-> TRUE]
    IN  IF built = <<>> \/ ~formatted.ok THEN Raised("AttributeError")
        ELSE
        LET base == [model |-> self.model, prompt |-> prompt,
                     response_format |-> "b64_json",
                     sequential_image_generation |-> "disabled",
                     watermark |-> FALSE, size |-> built[1]]
            payload == IF formatted.empty THEN base
                       ELSE base @@ [image |-> formatted.value]
        IN  Sent(payload, Doubao_response(self, aspect_ratio, image_size, t))

-----------------------------------------------------------------------------
(* src/services/gemini_image.py *)

\* __init__: the header scheme bound at construction.
Gemini_auth_mode(api_key, auth_mode) ==
    LET requested == IF Truthy(auth_mode) THEN auth_mode ELSE "auto"
        mode == IF requested \notin {"auto", "x-goog", "bearer"} THEN "auto" ELSE requested
    IN  IF mode = "auto"
        THEN IF Truthy(api_key) /\ StartsWith(api_key, "sk-") THEN "bearer" ELSE "x-goog"
        ELSE mode

\* _split_reference_image on a true str: <<mime_type, data>>
Gemini_split_reference_image(reference_image) ==
    LET ref == Strip(reference_image)
        pieces == Split(ref, ",")
    IN  IF StartsWith(ref, "data:") /\ Len(pieces) >= 2
        THEN LET header == pieces[1]
                 base64_data == SubSeq(ref, Len(header) + 2, Len(ref))
                 mime == Split(Split(header, ";")[1], ":")[2]
             IN  <<IF mime = "" THEN "image/jpeg" ELSE mime, base64_data>>
        ELSE <<"image/jpeg", ref>>

GeminiPart == [inlineData : {JAbsent, JNull, JObj([data |-> "", mimeType |-> "image/png"]),
                             JObj([data |-> "QUJD", mimeType |-> Absent])},
               text : {Absent, "caption"}]

\* The loop over the parts of the first candidate: <<image_data, text, mime>>.
RECURSIVE Gemini_scan_parts(_, _)
Gemini_scan_parts(parts, acc) ==
    IF parts = <<>> THEN acc
    ELSE LET part == Head(parts)
             next ==
               IF part.inlineData # JAbsent
               THEN IF part.inlineData.t = "obj"
                    THEN <<part.inlineData.obj.data, acc[2],
                           IF Truthy(part.inlineData.obj.mimeType)
                           THEN part.inlineData.obj.mimeType ELSE acc[3]>>
                    ELSE acc
               ELSE IF part.text # Absent THEN <<acc[1], part.text, acc[3]>>
               ELSE acc
         IN  Gemini_scan_parts(Tail(parts), next)

GeminiPartLists == {<<>>} \cup {<<p>> : p \in GeminiPart}
                       \cup {<<p, q>> : p \in GeminiPart,
                                         q \in {[inlineData |-> JNull, text |-> Absent],
                                                [inlineData |-> JAbsent, text |-> "caption"]}}

\* The JSON object of a 200 answer: "candidates" absent, empty, or one candidate
\* whose content is absent or carries parts.
GeminiResponses == {[candidates |-> JAbsent], [candidates |-> JList(<<>>)],
                    [candidates |-> JList(<<[content |-> JAbsent]>>)]}
                       \cup {[candidates |-> JList(<<[content |-> JObj([parts |-> ps])]>>)] :
                                ps \in GeminiPartLists}

Gemini_response(self, aspect_ratio, image_size, t) ==
    IF t.kind = "timeout"
    THEN [success |-> FALSE,
          message |-> "Request timeout. Try using a lower resolution (1K or 2K)"]
    ELSE IF t.kind = "error"
    THEN [success |-> FALSE, message |-> "Gemini image generation failed: " \o t.text]
    ELSE IF t.status # 200
    THEN [success |-> FALSE,
          message |-> "Gemini API error: " \o ToString(t.status) \o " - " \o t.text]
    ELSE IF ~IsOk(t)
    THEN [success |-> FALSE, message |-> "Gemini image generation failed: " \o BodyFault(t)]
    ELSE
    LET data == t.json.data
        candidates == ItemsOr(data.candidates, <<>>)
    IN  IF candidates = <<>>
        THEN [success |-> FALSE, message |-> "No candidates in response"]
        ELSE
        LET content == candidates[1].content
            parts == IF content.t = "obj" THEN content.obj.parts ELSE <<>>
            found == Gemini_scan_parts(parts, <<None, None, None>>)
        IN  IF Truthy(found[1])
            THEN [success |-> TRUE, image_data |-> found[1], text |-> found[2],
                  message |-> "image generated",
                  metadata |-> [aspect_ratio |-> aspect_ratio, image_size |-> image_size,
                                model |-> self.model,
                                mime_type |-> IF Truthy(found[3]) THEN found[3]
                                              ELSE "image/png"]]
            ELSE [success |-> FALSE, message |-> "No image data in response",
                  raw_response |-> data]

\* generate_image: the request is built inside the try block. reference_image is
\* None, a str, or NonString (a value whose .strip() raises).
Gemini_generate_image(self, prompt, aspect_ratio, image_size, reference_image, t) ==
    IF ~Truthy(self.api_key)
    THEN Returned([success |-> FALSE, message |-> "Gemini API key not configured"])
    ELSE IF reference_image = NonString
    THEN Returned([success |-> FALSE,
                   message |-> "Gemini image generation failed: AttributeError"])
    ELSE
    LET text == <<[text |-> prompt]>>
        parts == IF Truthy(reference_image)
                 THEN LET sp == Gemini_split_reference_image(reference_image)
                      IN  text \o <<[inline_data |-> [mime_type |-> sp[1], data |-> sp[2]]]>>
                 ELSE text
        body == [contents |-> <<[parts |-> parts]>>,
                 auth |-> self.auth_mode, api_key |-> self.api_key]
        request_body ==
            IF Contains(self.model, "gemini-3-pro")
            THEN body @@ [generationConfig |->
                            [imageConfig |-> [aspectRatio |-> aspect_ratio,
                                              imageSize |-> image_size]]]
            ELSE body
    IN  Sent(request_body, Gemini_response(self, aspect_ratio, image_size, t))

-----------------------------------------------------------------------------
(* src/services/dalle.py and src/services/stable_diffusion.py *)

ImageUrls == {Absent, None, "", "http://img/1.png"}

\* The JSON object of a 200 answer of DALL-E: "data" absent, empty or one item.
DalleResponses == {[data |-> JAbsent], [data |-> JList(<<>>)]}
                      \cup {[data |-> JList(<<[url |-> u]>>)] : u \in ImageUrls}

Dalle_generate_image(self, prompt, t) ==
    IF ~Truthy(self.api_key)
    THEN Returned([success |-> FALSE, error |-> "DALL-E API key not configured"])
    ELSE
    LET payload == [model |-> "dall-e-3", prompt |-> prompt, size |-> "1024x1024",
                    quality |-> "standard", n |-> 1]
        res ==
          IF t.kind \in {"timeout", "error"}
          THEN [success |-> FALSE,
                error |-> "DALL-E generation failed: "
                            \o t.text]
          ELSE IF t.status # 200
          THEN [success |-> FALSE,
                error |-> "DALL-E API error: " \o ToString(t.status) \o " - " \o t.text]
          ELSE IF ~IsOk(t)
          THEN [success |-> FALSE,
                error |-> "DALL-E generation failed: "
                            \o (IF t.json.shape = "invalid" THEN "JSONDecodeError"
                                ELSE "TypeError")]
          ELSE
          LET data == t.json.data
          IN  IF data.data = JAbsent \/ data.data.items = <<>>
              THEN [success |-> FALSE,
                    error |-> "DALL-E generation failed: "
                                \o (IF data.data = JAbsent THEN "KeyError" ELSE "IndexError")]
              ELSE IF data.data.items[1].url = Absent
              THEN [success |-> FALSE, error |-> "DALL-E generation failed: KeyError"]
              ELSE [success |-> TRUE, image_url |-> data.data.items[1].url,
                    metadata |-> [revised_prompt |-> None, size |-> "1024x1024",
                                  quality |-> "standard"]]
    IN Sent(payload, res)

Base64s == {Absent, None, "", "QUJD"}

\* The JSON object of a 200 answer of Stability AI.
StableDiffusionResponses == {[artifacts |-> JAbsent], [artifacts |-> JList(<<>>)]}
                                \cup {[artifacts |-> JList(<<[base64 |-> b]>>)] :
                                         b \in Base64s}

StableDiffusion_generate_image(self, prompt, t) ==
    IF ~Truthy(self.api_key)
    THEN Returned([success |-> FALSE, error |-> "Stability AI API key not configured"])
    ELSE
    LET payload == [text_prompts |-> <<[text |-> prompt, weight |-> 1]>>, cfg_scale |-> 7,
                    height |-> 1024, width |-> 1024, steps |-> 30, samples |-> 1]
        res ==
          IF t.kind \in {"timeout", "error"}
          THEN [success |-> FALSE,
                error |-> "Stable Diffusion generation failed: "
                            \o t.text]
          ELSE IF t.status # 200
          THEN [success |-> FALSE,
                error |-> "Stability AI error: " \o ToString(t.status) \o " - " \o t.text]
          ELSE IF ~IsOk(t)
          THEN [success |-> FALSE,
                error |-> "Stable Diffusion generation failed: "
                            \o (IF t.json.shape = "invalid" THEN "JSONDecodeError"
                                ELSE "TypeError")]
          ELSE
          LET data == t.json.data
          IN  IF data.artifacts = JAbsent \/ data.artifacts.items = <<>>
              THEN [success |-> FALSE,
                    error |-> "Stable Diffusion generation failed: "
                                \o (IF data.artifacts = JAbsent THEN "KeyError"
                                    ELSE "IndexError")]
              ELSE IF data.artifacts.items[1].base64 = Absent
              THEN [success |-> FALSE,
                    error |-> "Stable Diffusion generation failed: KeyError"]
              ELSE [success |-> TRUE, image_data |-> data.artifacts.items[1].base64,
                    metadata |-> [width |-> 1024, height |-> 1024, steps |-> 30,
                                  seed |-> None]]
    IN Sent(payload, res)

-----------------------------------------------------------------------------
(* src/services/chat_service.py and src/services/mimo_chat.py *)

Contents == {Absent, None, "", "hello"}

\* A choice of a chat answer: its "message" absent, null, or an object with "content".
ChatChoices == {[message |-> JAbsent], [message |-> JNull]}
                   \cup {[message |-> JObj([content |-> c])] : c \in Contents}

\* The JSON object of a 200 chat answer: "choices" absent, empty or one choice.
ChatResponses == {[choices |-> JAbsent], [choices |-> JList(<<>>)]}
                     \cup {[choices |-> JList(<<c>>)] : c \in ChatChoices}

Models == {None, "model-x"}

ChatService_chat_completion(self, messages, model, t) ==
    IF ~Truthy(self.api_key)
    THEN Returned([success |-> FALSE, message |-> "API key not configured"])
    ELSE
    LET payload == [model |-> IF Truthy(model) THEN model ELSE self.model,
                    messages |-> messages]
        res ==
          IF t.kind \in {"timeout", "error"}
          THEN [success |-> FALSE,
                message |-> "Request failed: "
                              \o t.text]
          ELSE IF t.status # 200
          THEN [success |-> FALSE,
                message |-> "API Error: " \o ToString(t.status) \o " - " \o t.text]
          ELSE IF ~IsOk(t)
          THEN [success |-> FALSE,
                message |-> "Request failed: "
                              \o (IF t.json.shape = "invalid" THEN "JSONDecodeError"
                                  ELSE "TypeError")]
          ELSE
          LET data == t.json.data
          IN  IF data.choices = JAbsent
              THEN [success |-> FALSE, message |-> "Request failed: KeyError"]
              ELSE IF data.choices.items = <<>>
              THEN [success |-> FALSE, message |-> "Request failed: IndexError"]
              ELSE
              LET message == data.choices.items[1].message
              IN  IF message = JAbsent
                  THEN [success |-> FALSE, message |-> "Request failed: KeyError"]
                  ELSE IF message = JNull
                  THEN [success |-> FALSE, message |-> "Request failed: TypeError"]
                  ELSE IF message.obj.content = Absent
                  THEN [success |-> FALSE, message |-> "Request failed: KeyError"]
                  ELSE [success |-> TRUE, message |-> message.obj.content, data |-> data]
    IN Sent(payload, res)

Mimo_chat_completion(self, messages, model, t) ==
    IF ~Truthy(self.api_key)
    THEN Returned([success |-> FALSE, message |-> "MiMO API key not configured"])
    ELSE
    LET payload == [model |-> IF Truthy(model) THEN model ELSE self.model,
                    messages |-> messages, max_completion_tokens |-> 1024,
                    stream |-> FALSE]
        res ==
          IF t.kind = "timeout"
          THEN [success |-> FALSE, message |-> "MiMO request timed out"]
          ELSE IF t.kind = "error"
          THEN [success |-> FALSE, message |-> "MiMO request failed: " \o t.text]
          ELSE IF t.status # 200
          THEN [success |-> FALSE,
                message |-> "MiMO API error: " \o ToString(t.status) \o " - " \o t.text]
          ELSE IF ~IsOk(t)
          THEN [success |-> FALSE, message |-> "MiMO request failed: " \o BodyFault(t)]
          ELSE
          LET data == t.json.data
              \* data.get("choices", [{}])
              choices == ItemsOr(data.choices, <<[message |-> JAbsent]>>)
          IN  IF choices = <<>>
              THEN [success |-> FALSE, message |-> "MiMO request failed: IndexError"]
              ELSE
              LET message == choices[1].message
              IN  IF message = JNull
                  THEN [success |-> FALSE, message |-> "MiMO request failed: AttributeError"]
                  ELSE
                  \* .get("message", {}).get("content", "")
                  LET content == IF message = JAbsent THEN ""
                                 ELSE Get(message.obj, "content", "")
                  IN  [success |-> TRUE, message |-> content, data |-> data]
    IN Sent(payload, res)

-----------------------------------------------------------------------------
(* src/services/video_analysis.py *)

MaxVideoBytes == 104857600

\* The file at video_path: whether it exists, its size, whether it can be read.
VideoFiles == {[exists |-> FALSE, size |-> 0, readable |-> FALSE],
               [exists |-> TRUE, size |-> 0, readable |-> TRUE],
               [exists |-> TRUE, size |-> MaxVideoBytes, readable |-> TRUE],
               [exists |-> TRUE, size |-> MaxVideoBytes, readable |-> FALSE],
               [exists |-> TRUE, size |-> MaxVideoBytes + 1, readable |-> TRUE]}

AnalysisParts == {<<>>, <<[text |-> "a "]>>, <<[text |-> Absent]>>,
                  <<[text |-> "a "], [text |-> "cat"]>>}

\* The parsed body of an answer: candidates on a 200, an error object otherwise.
AnalysisBodies == {[candidates |-> JAbsent, error |-> JAbsent],
                   [candidates |-> JList(<<>>), error |-> JAbsent],
                   [candidates |-> JList(<<[content |-> JAbsent]>>), error |-> JAbsent],
                   [candidates |-> JAbsent, error |-> JObj([message |-> "quota"])],
                   [candidates |-> JAbsent, error |-> JObj([message |-> Absent])]}
                      \cup {[candidates |-> JList(<<[content |-> JObj([parts |-> ps])]>>),
                             error |-> JAbsent] : ps \in AnalysisParts}

\* http.client answers: every status carries a body that json.loads parses or not.
AnalysisTransports ==
    {TimeoutT, ConnectErrorT}
        \cup {[kind |-> "http", status |-> st, json |-> [shape |-> sh]] :
                 st \in {200, 500}, sh \in {"invalid", "array"}}
        \cup {[kind |-> "http", status |-> st, json |-> [shape |-> "object", data |-> b]] :
                 st \in {200, 500}, b \in AnalysisBodies}

\* text_response: the text of the parts that have one, concatenated in order
RECURSIVE ConcatText(_)
ConcatText(parts) ==
    IF parts = <<>> THEN ""
    ELSE (IF Head(parts).text # Absent THEN Head(parts).text ELSE "")
            \o ConcatText(Tail(parts))

VideoAnalysis_too_large_AtCeiling(file_size) == file_size >= MaxVideoBytes

\* analyze_video, lines 88-90: file_size > max_size
VideoAnalysis_too_large(file_size) == file_size > MaxVideoBytes

VideoAnalysis_analyze_video(self, video_path, prompt, api_key, file, t) ==
    LET key == IF Truthy(api_key) THEN api_key ELSE self.api_key
    IN
    IF ~Truthy(key)
    THEN Returned([success |-> FALSE, message |-> "API key not configured"])
    ELSE IF ~file.exists
    THEN Returned([success |-> FALSE, message |-> "video file not found: " \o video_path])
    ELSE IF VideoAnalysis_too_large(file.size)
    THEN Returned([success |-> FALSE,
                   message |-> "video file too large: " \o ToString(file.size)])
    ELSE IF ~file.readable
    THEN Returned([success |-> FALSE,
                   message |-> "video analysis failed: video file read failed"])
    ELSE
    LET payload == [contents |-> <<[role |-> "user",
                                    parts |-> <<[inline_data |-> "video/mp4"],
                                                [text |-> prompt]>>]>>,
                    key |-> key]
        res ==
          IF t.kind = "timeout"
          THEN [success |-> FALSE, message |-> "request timed out (180s), use a smaller video"]
          ELSE IF t.kind = "error"
          THEN [success |-> FALSE, message |-> "network request failed: " \o t.text]
          ELSE IF t.json.shape = "invalid"
          THEN [success |-> FALSE, message |-> "network request failed: JSONDecodeError"]
          ELSE IF t.json.shape = "array"
          THEN [success |-> FALSE, message |-> "video analysis failed: AttributeError"]
          ELSE
          LET response_data == t.json.data
          IN  IF t.status = 200
              THEN LET candidates == ItemsOr(response_data.candidates, <<>>)
                   IN  IF candidates # <<>>
                       THEN LET content == candidates[1].content
                                parts == IF content.t = "obj" THEN content.obj.parts
                                         ELSE <<>>
                            IN  [success |-> TRUE, message |-> "video analysis done",
                                 analysis |-> ConcatText(parts),
                                 raw_response |-> response_data,
                                 metadata |-> [model |-> self.model, prompt |-> prompt,
                                               video_path |-> video_path,
                                               video_size |-> file.size]]
                       ELSE [success |-> FALSE, message |-> "no analysis result found",
                             raw_response |-> response_data]
              ELSE LET error_msg == IF response_data.error.t = "obj"
                                    THEN Get(response_data.error.obj, "message",
                                             "unknown error")
                                    ELSE "unknown error"
                   IN  [success |-> FALSE, message |-> "API error: " \o error_msg,
                        raw_response |-> response_data]
    IN Sent(payload, res)

-----------------------------------------------------------------------------
(* The adapters as a state machine: src/dependencies.py builds one client per *)
(* provider; each action is one adapter call, from entry to return or raise.  *)

GeminiModels == {"gemini-2.5-flash-image", "gemini-3-pro-image-preview"}

\* The singletons, all configured with the same credential k.
Clients(k, geminiModel) ==
    [dalle    |-> [api_key |-> k],
     sd       |-> [api_key |-> k],
     gemini   |-> [api_key |-> k, model |-> geminiModel,
                   auth_mode |-> Gemini_auth_mode(k, None)],
     doubao   |-> [api_key |-> k, model |-> "doubao-seedream-4-0-250828"],
     chat     |-> [api_key |-> k, model |-> "gpt-5.2-2025-12-11"],
     mimo     |-> [api_key |-> k, model |-> "mimo-v2-flash"],
     sora     |-> [api_key |-> k, model |-> "sora-2"],
     veo      |-> [api_key |-> k, model |-> "veo3-fast"],
     analysis |-> [api_key |-> k, model |-> "gemini-2.5-pro"]]

NoCall == [op |-> "none"]

\* The record of a call that ended: the operation, the client it ran on, its
\* arguments, what the transport was going to answer, and how the call ended.
Call(op, self, args, t, ret) ==
    [op |-> op, self |-> self, args |-> args, transport |-> t] @@ ret

Prompt == "a red cat"

VideoCreateTransports == BaseTransports \cup {Ok(d) : d \in CreateResponses}
VideoQueryTransports == BaseTransports \cup {Ok(d) : d \in QueryResponses}

SoraCreateVideo ==
    /\ last = NoCall
    /\ \E orientation \in Orientations, duration \in Durations, images \in ImageLists,
          t \in VideoCreateTransports :
          last' = Call("Sora.create_video", clients.sora,
                       [orientation |-> orientation, duration |-> duration,
                        images |-> images], t,
                       Sora_create_video(clients.sora, Prompt, orientation, duration,
                                         images, t))
    /\ UNCHANGED <<clients, historyVars>>

SoraQueryVideo ==
    /\ last = NoCall
    /\ \E t \in VideoQueryTransports :
          last' = Call("Sora.query_video", clients.sora, [task_id |-> "task-1"], t,
                       Sora_query_video(clients.sora, "task-1", t))
    /\ UNCHANGED <<clients, historyVars>>

VeoCreateVideo_KeepsOverride ==
    /\ last = NoCall
    /\ \E model \in VeoModels, aspect_ratio \in AspectRatios, images \in VeoImageLists,
          t \in VideoCreateTransports :
          /\ last' = Call("Veo.create_video", clients.veo,
                          [model |-> model, aspect_ratio |-> aspect_ratio,
                           images |-> images], t,
                          Veo_create_video(clients.veo, Prompt, model, aspect_ratio,
                                           images, t))
          /\ clients' = [clients EXCEPT !.veo.model = Veo_use_model(clients.veo, model)]
    /\ UNCHANGED historyVars

VeoCreateVideo ==
    /\ last = NoCall
    /\ \E model \in VeoModels, aspect_ratio \in AspectRatios, images \in VeoImageLists,
          t \in VideoCreateTransports :
          last' = Call("Veo.create_video", clients.veo,
                       [model |-> model, aspect_ratio |-> aspect_ratio,
                        images |-> images], t,
                       Veo_create_video(clients.veo, Prompt, model, aspect_ratio,
                                        images, t))
    /\ UNCHANGED <<clients, historyVars>>

VeoQueryVideo ==
    /\ last = NoCall
    /\ \E t \in VideoQueryTransports :
          last' = Call("Veo.query_video", clients.veo, [task_id |-> "task-1"], t,
                       Veo_query_video(clients.veo, "task-1", t))
    /\ UNCHANGED <<clients, historyVars>>

RatioInputs == {None, "16:9", "1:3", "abc", "1:0", "16:9:1"}
SizeInputs == {None, "1K", "2k", "4K", "8K"}
ReferenceInputs == {NoReference, StrRef(" QUJD "), StrRef("data:image/jpeg;base64,QUJD"),
                    ListRef(<<"", "QUJD">>), ListRef(<<"QUJD", NonString>>)}
SizeOverrides == {None, "512x512"}

DoubaoTransports == BaseTransports \cup {Ok(d) : d \in DoubaoResponses}

DoubaoGenerateImage ==
    /\ last = NoCall
    /\ \E aspect_ratio \in RatioInputs, image_size \in SizeInputs,
          reference_image \in ReferenceInputs, size \in SizeOverrides,
          t \in DoubaoTransports :
          last' = Call("Doubao.generate_image", clients.doubao,
                       [aspect_ratio |-> aspect_ratio, image_size |-> image_size,
                        reference_image |-> reference_image, size |-> size], t,
                       Doubao_generate_image(clients.doubao, Prompt, aspect_ratio,
                                             image_size, reference_image, size, t))
    /\ UNCHANGED <<clients, historyVars>>

GeminiReferences == {None, "", " QUJD ", "data:image/png;base64,QUJD", "data:;base64,QUJD",
                     "data:QUJD", NonString}

GeminiTransports == BaseTransports \cup {Ok(d) : d \in GeminiResponses}

GeminiGenerateImage ==
    /\ last = NoCall
    /\ \E aspect_ratio \in {None, "16:9"}, image_size \in {None, "1K"},
          reference_image \in GeminiReferences, t \in GeminiTransports :
          last' = Call("Gemini.generate_image", clients.gemini,
                       [aspect_ratio |-> aspect_ratio, image_size |-> image_size,
                        reference_image |-> reference_image], t,
                       Gemini_generate_image(clients.gemini, Prompt, aspect_ratio,
                                             image_size, reference_image, t))
    /\ UNCHANGED <<clients, historyVars>>

DalleGenerateImage ==
    /\ last = NoCall
    /\ \E t \in BaseTransports \cup {Ok(d) : d \in DalleResponses} :
          last' = Call("Dalle.generate_image", clients.dalle, [prompt |-> Prompt], t,
                       Dalle_generate_image(clients.dalle, Prompt, t))
    /\ UNCHANGED <<clients, historyVars>>

StableDiffusionGenerateImage ==
    /\ last = NoCall
    /\ \E t \in BaseTransports \cup {Ok(d) : d \in StableDiffusionResponses} :
          last' = Call("StableDiffusion.generate_image", clients.sd, [prompt |-> Prompt], t,
                       StableDiffusion_generate_image(clients.sd, Prompt, t))
    /\ UNCHANGED <<clients, historyVars>>

MessageLists == {<<>>, <<[role |-> "user", content |-> "hi"]>>,
                 <<[role |-> "system", content |-> "be brief"],
                   [role |-> "user", content |-> "hi"]>>}

ChatTransports == BaseTransports \cup {Ok(d) : d \in ChatResponses}

ChatCompletion ==
    /\ last = NoCall
    /\ \E messages \in MessageLists, model \in Models, t \in ChatTransports :
          last' = Call("Chat.chat_completion", clients.chat,
                       [messages |-> messages, model |-> model], t,
                       ChatService_chat_completion(clients.chat, messages, model, t))
    /\ UNCHANGED <<clients, historyVars>>

MimoChatCompletion ==
    /\ last = NoCall
    /\ \E messages \in MessageLists, model \in Models, t \in ChatTransports :
          last' = Call("Mimo.chat_completion", clients.mimo,
                       [messages |-> messages, model |-> model], t,
                       Mimo_chat_completion(clients.mimo, messages, model, t))
    /\ UNCHANGED <<clients, historyVars>>

PerCallKeys == {None, "", "sk-call"}

AnalyzeVideo ==
    /\ last = NoCall
    /\ \E api_key \in PerCallKeys, file \in VideoFiles, t \in AnalysisTransports :
          last' = Call("VideoAnalysis.analyze_video", clients.analysis,
                       [video_path |-> "uploads/v.mp4", api_key |-> api_key,
                        file |-> file], t,
                       VideoAnalysis_analyze_video(clients.analysis, "uploads/v.mp4",
                                                   Prompt, api_key, file, t))
    /\ UNCHANGED <<clients, historyVars>>

\* The awaiting caller takes the result of the call that ended. The clients
\* share no mutable state, so calls in flight at once are observed one by one.
Handback ==
    /\ last # NoCall
    /\ last' = NoCall
    /\ UNCHANGED <<clients, historyVars>>

AdapterNext ==
    \/ Handback
    \/ SoraCreateVideo
    \/ SoraQueryVideo
    \/ VeoCreateVideo
    \/ VeoQueryVideo
    \/ DoubaoGenerateImage
    \/ GeminiGenerateImage
    \/ DalleGenerateImage
    \/ StableDiffusionGenerateImage
    \/ ChatCompletion
    \/ MimoChatCompletion
    \/ AnalyzeVideo

-----------------------------------------------------------------------------
(* Properties of the adapters, checked under SpecAdapter *)

CallEnded == last.op # "none"

NoClientCredential == last.self.api_key \in {None, ""}

NothingSentAndFailed ==
    /\ last.outcome = "returned"
    /\ last.request = <<>>
    /\ last.result.success = FALSE

\* C1, as stated: every adapter operation on a client whose credential is
\* absent or empty returns success=false and sends no request.
NoCredentialNoRequest ==
    (CallEnded /\ NoClientCredential) => NothingSentAndFailed

\* C1, amended: the same, where analyze_video is given no non-empty api_key
\* argument either (its api_key argument stands in for the client's credential).
NoCredentialAtAllNoRequest ==
    (/\ CallEnded
     /\ NoClientCredential
     /\ (last.op = "VideoAnalysis.analyze_video" => last.args.api_key \in {None, ""}))
        => NothingSentAndFailed

\* analyze_video ended on a client without credential, without api_key argument,
\* for a readable file the provider would have answered with a 200.
NoCredentialAtAllReached ==
    /\ last.op = "VideoAnalysis.analyze_video"
    /\ last.self.api_key = ""
    /\ last.args.api_key = None
    /\ last.args.file.exists /\ last.args.file.readable
    /\ last.transport.kind = "http" /\ last.transport.status = 200
    /\ last.request = <<>>

\* C2: no exception escapes an adapter operation: every call returns a result
\* with a success field, whatever its inputs and whatever the transport does.
NoExceptionEscapes ==
    CallEnded => (last.outcome = "returned" /\ Has(last.result, "success"))

Populated(r, f) == Has(r, f) /\ r[f] \notin {None, Absent, ""}

ImageOps == {"Doubao.generate_image", "Gemini.generate_image", "Dalle.generate_image",
             "StableDiffusion.generate_image"}
ChatOps == {"Chat.chat_completion", "Mimo.chat_completion"}
CreateOps == {"Sora.create_video", "Veo.create_video"}
QueryOps == {"Sora.query_video", "Veo.query_video"}

\* C3: success=true implies the payload of the operation is present and not
\* empty (image: image_data or image_url; chat: the completion text, which the
\* results carry as message; video-create: task_id; video-analysis: analysis);
\* success=false implies that no payload field is populated.
SuccessIffPayload ==
    (CallEnded /\ last.outcome = "returned") =>
        LET r == last.result
        IN  /\ last.op \in ImageOps =>
                  IF r.success
                  THEN Populated(r, "image_data") \/ Populated(r, "image_url")
                  ELSE ~Populated(r, "image_data") /\ ~Populated(r, "image_url")
            /\ last.op \in ChatOps =>
                  IF r.success THEN Populated(r, "message") ELSE ~Populated(r, "data")
            /\ last.op \in CreateOps =>
                  IF r.success THEN Populated(r, "task_id") ELSE ~Populated(r, "task_id")
            /\ last.op = "VideoAnalysis.analyze_video" =>
                  IF r.success THEN Populated(r, "analysis") ELSE ~Populated(r, "analysis")

\* The provider answered the request of the call with a 200 carrying a JSON object.
Answered200 == CallEnded /\ last.request # <<>> /\ IsOk(last.transport)

\* C4: when the provider answers query_video with HTTP 200 and status "failed",
\* the result has success=false, whatever else the answer carries.
FailedStatusIsFailure ==
    (/\ Answered200
     /\ last.op \in QueryOps
     /\ last.transport.json.data.status = "failed")
        => (last.outcome = "returned" /\ last.result.success = FALSE)

\* A query answered with status "failed" together with a video_url has ended.
FailedStatusWithUrlReached ==
    /\ Answered200
    /\ last.op = "Sora.query_video"
    /\ last.transport.json.data.status = "failed"
    /\ last.transport.json.data.video_url = "http://v/1.mp4"
    /\ last.result.success = FALSE

\* C5: when create_video returns success=true, the result carries a non-empty
\* task_id and its status is pending or processing.
CreatedIsPendingOrProcessing ==
    (/\ CallEnded
     /\ last.op \in CreateOps
     /\ last.outcome = "returned"
     /\ last.result.success)
        => (/\ Populated(last.result, "task_id")
            /\ last.result.status \in {"pending", "processing"})

TaskStatus == {"pending", "processing", "completed", "failed", "unknown"}

\* C6: the status of every query_video result is one of pending, processing,
\* completed, failed, unknown.
QueryStatusInTaskStatus ==
    (/\ CallEnded
     /\ last.op \in QueryOps
     /\ last.outcome = "returned"
     /\ Has(last.result, "status"))
        => last.result.status \in TaskStatus


\* The first image of a 200 answer to Doubao's generate_image.
DoubaoFirstImage == last.transport.json.data.data.items[1]

DoubaoImageAnswered ==
    /\ CallEnded /\ last.op = "Doubao.generate_image" /\ last.request # <<>>
    /\ IsOk(last.transport)
    /\ last.transport.json.data.data # JAbsent
    /\ last.transport.json.data.data.items # <<>>

\* The inline field carries content: a string with a character that is no whitespace.
HasInline(img) ==
    /\ img.b64_json \notin {Absent, None}
    /\ \E i \in 1..Len(img.b64_json) : SubSeq(img.b64_json, i, i) \notin Whitespace

\* C18: when the first image of a 200 answer carries both inline base64 content
\* and a URL, the result has image_data and no image_url; a result has image_url
\* only when the answer carries no inline content.
InlineWinsOverUrl ==
    DoubaoImageAnswered =>
        /\ (HasInline(DoubaoFirstImage) /\ DoubaoFirstImage.url \notin {Absent, None, ""})
              => /\ last.result.success
                 /\ Populated(last.result, "image_data")
                 /\ ~Has(last.result, "image_url")
        /\ Has(last.result, "image_url") => ~HasInline(DoubaoFirstImage)

InlineAndUrlReached ==
    /\ DoubaoImageAnswered
    /\ HasInline(DoubaoFirstImage)
    /\ DoubaoFirstImage.url = "http://img/1.png"
    /\ Populated(last.result, "image_data")

\* The call that ended last, made again with the transport doing t.
SameCall(t) ==
    IF last.op = "Sora.create_video"
    THEN Sora_create_video(last.self, Prompt, last.args.orientation, last.args.duration,
                           last.args.images, t)
    ELSE IF last.op = "Sora.query_video" THEN Sora_query_video(last.self, last.args.task_id, t)
    ELSE IF last.op = "Veo.create_video"
    THEN Veo_create_video(last.self, Prompt, last.args.model, last.args.aspect_ratio,
                          last.args.images, t)
    ELSE IF last.op = "Veo.query_video" THEN Veo_query_video(last.self, last.args.task_id, t)
    ELSE IF last.op = "Doubao.generate_image"
    THEN Doubao_generate_image(last.self, Prompt, last.args.aspect_ratio,
                               last.args.image_size, last.args.reference_image,
                               last.args.size, t)
    ELSE IF last.op = "Gemini.generate_image"
    THEN Gemini_generate_image(last.self, Prompt, last.args.aspect_ratio,
                               last.args.image_size, last.args.reference_image, t)
    ELSE IF last.op = "Dalle.generate_image" THEN Dalle_generate_image(last.self, Prompt, t)
    ELSE IF last.op = "StableDiffusion.generate_image"
    THEN StableDiffusion_generate_image(last.self, Prompt, t)
    ELSE IF last.op = "Chat.chat_completion"
    THEN ChatService_chat_completion(last.self, last.args.messages, last.args.model, t)
    ELSE IF last.op = "Mimo.chat_completion"
    THEN Mimo_chat_completion(last.self, last.args.messages, last.args.model, t)
    ELSE VideoAnalysis_analyze_video(last.self, last.args.video_path, Prompt,
                                     last.args.api_key, last.args.file, t)

\* The text a failure result carries: its message, or else its error.
FailureText(r) ==
    IF Has(r, "message") THEN r.message ELSE IF Has(r, "error") THEN r.error ELSE Absent

TimedOut == CallEnded /\ last.request # <<>> /\ last.transport.kind = "timeout"

\* C19: when the transport times out, every adapter operation returns
\* success=false with a text of its own for the timeout: the same call failing
\* with another transport error returns a different text.
TimeoutMessageIsSpecific ==
    TimedOut =>
        /\ last.outcome = "returned"
        /\ ~last.result.success
        /\ \A t \in {ConnectErrorT, ReadErrorT} :
              FailureText(SameCall(t).result) # FailureText(last.result)

\* C20: every result an adapter returns, success or failure, has a message
\* field.
EveryResultHasMessage ==
    (CallEnded /\ last.outcome = "returned") => Has(last.result, "message")

\* A 200 chat answer that lacks the choices list, its first element, the
\* message of that element or the content of that message.
ChatAnswerIncomplete ==
    /\ Answered200 /\ last.op \in ChatOps
    /\ LET choices == last.transport.json.data.choices
       IN  \/ choices = JAbsent
           \/ choices.items = <<>>
           \/ choices.items[1].message = JAbsent
           \/ /\ choices.items[1].message # JNull
              /\ choices.items[1].message.obj.content = Absent

\* C21: for both chat providers a 200 answer in which the choices list, its
\* first element, the message or the content is absent gives success=false
\* with a message; it gives no success=true and raises nothing.
IncompleteChatAnswerIsFailure ==
    ChatAnswerIncomplete =>
        /\ last.outcome = "returned"
        /\ ~last.result.success
        /\ Has(last.result, "message")

\* analyze_video ran with a credential, its own or the one of the call.
AnalysisRan ==
    /\ CallEnded /\ last.op = "VideoAnalysis.analyze_video"
    /\ \/ last.args.api_key \notin {None, ""}
       \/ last.self.api_key \notin {None, ""}

\* The same call on a file larger than 100 MB.
SameCallOnTooLargeFile ==
    VideoAnalysis_analyze_video(last.self, last.args.video_path, Prompt, last.args.api_key,
                                [exists |-> TRUE, size |-> 104857601, readable |-> TRUE],
                                last.transport)

\* C22: analyze_video tests its preconditions before any network I/O: a missing
\* file and a file larger than 100 MB give success=false with no request, with
\* different messages; a file of exactly 100 MB is accepted and sent.
PreconditionsBeforeNetwork ==
    AnalysisRan =>
        /\ ~last.args.file.exists =>
              /\ last.request = <<>> /\ last.outcome = "returned" /\ ~last.result.success
              /\ last.result.message # SameCallOnTooLargeFile.result.message
        /\ (last.args.file.exists /\ last.args.file.size > 104857600) =>
              /\ last.request = <<>> /\ last.outcome = "returned" /\ ~last.result.success
        /\ (last.args.file.exists /\ last.args.file.size = 104857600
               /\ last.args.file.readable) => last.request # <<>>

CeilingSizeSentReached ==
    /\ AnalysisRan
    /\ last.args.file = [exists |-> TRUE, size |-> 104857600, readable |-> TRUE]
    /\ last.request # <<>>

\* C25: an adapter operation issues at most one request per invocation: a
\* request that timed out or failed is not sent again, and query_video asks
\* once and returns.
AtMostOneRequest ==
    CallEnded =>
        /\ Len(last.request) <= 1
        /\ (last.request # <<>> /\ last.transport.kind \in {"timeout", "error"}) =>
              /\ Len(last.request) = 1
              /\ ~last.result.success

TimedOutQueryReached ==
    /\ TimedOut /\ last.op = "Veo.query_video"
    /\ Len(last.request) = 1
    /\ ~last.result.success

\* The provider answered the query 200 with status completed and a URL that is
\* not empty.
CompletedWithUrl ==
    /\ Answered200
    /\ last.transport.json.data.status = "completed"
    /\ last.transport.json.data.video_url \notin {Absent, None, ""}

\* C26: a query_video result has video_url exactly when the provider reported
\* status completed with a non-empty URL, and then it is that URL; completed
\* without a URL gives success=true and no video_url; a URL reported with
\* another status is not forwarded.
VideoUrlIffCompletedWithUrl ==
    (CallEnded /\ last.op \in QueryOps /\ last.outcome = "returned") =>
        /\ Has(last.result, "video_url") <=> CompletedWithUrl
        /\ CompletedWithUrl => last.result.video_url = last.transport.json.data.video_url
        /\ (Answered200 /\ last.transport.json.data.status = "completed"
               /\ ~CompletedWithUrl) => last.result.success

UrlWithOtherStatusReached ==
    /\ CallEnded /\ last.op = "Veo.query_video" /\ Answered200
    /\ last.transport.json.data.status = "processing"
    /\ last.transport.json.data.video_url = "http://v/1.mp4"
    /\ ~Has(last.result, "video_url")

\* The configurations the singletons are constructed with.
Constructed == {Clients(k, m) : k \in ApiKeys, m \in GeminiModels}

\* The operations that take a per-call model.
ModelOverrideOps == {"Veo.create_video", "Chat.chat_completion", "Mimo.chat_completion"}

\* The model bound at construction of the client of an operation.
ConstructedModel(op) ==
    IF op = "Veo.create_video" THEN "veo3-fast"
    ELSE IF op = "Chat.chat_completion" THEN "gpt-5.2-2025-12-11"
    ELSE "mimo-v2-flash"

SentWithoutOverride ==
    /\ CallEnded /\ last.op \in ModelOverrideOps
    /\ last.request # <<>>
    /\ last.args.model \in {None, ""}

\* C27: no adapter operation changes the configuration of its instance: after
\* any sequence of calls, calls with a model override included, the
\* configuration is the constructed one and a call without override sends the
\* model bound at construction.
ConfigurationUnchanged ==
    /\ clients \in Constructed
    /\ CallEnded => last.self \in {c[f] : c \in Constructed, f \in DOMAIN clients}
    /\ SentWithoutOverride => last.request[1].model = ConstructedModel(last.op)

SentWithoutOverrideReached ==
    /\ SentWithoutOverride /\ last.op = "Veo.create_video"
    /\ last.request[1].model = "veo3-fast"

CredentialConfigured == last.self.api_key \notin {None, ""}

\* C15: create_video rejects no request for an out-of-range option: with a
\* credential configured the request is sent, an orientation outside
\* {portrait, landscape} as landscape, a duration outside {15, 25} (null
\* included) as 15, an aspect ratio outside {16:9, 9:16} as 16:9, and a valid
\* value as given.
OutOfRangeOptionsSentAsDefaults ==
    /\ (CallEnded /\ last.op = "Sora.create_video" /\ CredentialConfigured) =>
          /\ last.outcome = "returned" /\ last.request # <<>>
          /\ last.request[1].orientation =
                IF last.args.orientation \in {"portrait", "landscape"}
                THEN last.args.orientation ELSE "landscape"
          /\ last.request[1].duration =
                IF last.args.duration \in {<<15>>, <<25>>}
                THEN last.args.duration ELSE <<15>>
    /\ (CallEnded /\ last.op = "Veo.create_video" /\ CredentialConfigured) =>
          /\ last.outcome = "returned" /\ last.request # <<>>
          /\ last.request[1].aspect_ratio =
                IF last.args.aspect_ratio \in {"16:9", "9:16"}
                THEN last.args.aspect_ratio ELSE "16:9"

OutOfRangeOptionsReached ==
    /\ CallEnded /\ last.op = "Sora.create_video" /\ CredentialConfigured
    /\ last.args.orientation = "sideways"
    /\ last.args.duration = <<>>
    /\ last.request # <<>>

-----------------------------------------------------------------------------
(* src/history.py: HistoryManager on SQLite. Every call opens its own        *)
(* connection; SQLite admits one writer at a time: a connection holds the     *)
(* write lock from its INSERT or DELETE until its commit.                     *)

NumCallers == 2     \* callers that may be inside add_history at once
MaxAppends == 2     \* add_history calls started in a behaviour
MaxClock == 1       \* seconds that pass in a behaviour

Callers == 1..NumCallers

Idle == [pc |-> "idle", tag |-> 0, lastrowid |-> 0, pending |-> <<>>]

NoList == [limit |-> 0, offset |-> 0, after |-> 0, result |-> <<>>]
NoDelete == [item_id |-> 0, status |-> 0, detail |-> "", before |-> {}, after |-> {}]

\* No response of the history router is waiting to be sent.
Quiet == listed = NoList /\ deleted = NoDelete

MaxId(rs) == IF rs = {} THEN 0 ELSE CHOOSE m \in {r.id : r \in rs} : \A r \in rs : r.id <= m

\* INTEGER PRIMARY KEY without AUTOINCREMENT: one more than the largest rowid
\* the table holds now.
NextRowId_NoAutoincrement == MaxId(rows) + 1

\* INTEGER PRIMARY KEY AUTOINCREMENT: one more than the largest rowid the table
\* ever held, which sqlite_sequence remembers.
NextRowId == Max(seq, MaxId(rows)) + 1

\* add_history, line 38: sqlite3.connect. The tag names the call (it is the
\* prompt the call stores).
AddConnect(p) ==
    /\ Quiet
    /\ conn[p].pc = "idle"
    /\ started < MaxAppends
    /\ started' = started + 1
    /\ conn' = [conn EXCEPT ![p] = [Idle EXCEPT !.pc = "connected", !.tag = started + 1]]
    /\ justAppended' = 0
    /\ UNCHANGED <<rows, seq, clock, lock, commits, returned, listed, deleted,
                   adapterVars>>

\* line 43: cursor.execute(INSERT). The statement takes the write lock, assigns
\* the rowid and CURRENT_TIMESTAMP; the row is visible to others at commit.
AddInsert(p) ==
    /\ Quiet
    /\ conn[p].pc = "connected"
    /\ lock = 0
    /\ lock' = p
    /\ conn' = [conn EXCEPT ![p].pc = "inserted",
                            ![p].lastrowid = NextRowId,
                            ![p].pending = <<[id |-> NextRowId, type |-> "chat",
                                              prompt |-> conn[p].tag,
                                              created_at |-> clock]>>]
    /\ justAppended' = 0
    /\ UNCHANGED <<rows, seq, clock, started, commits, returned, listed, deleted,
                   adapterVars>>

\* line 43 while another connection holds the write lock: after the busy
\* timeout the statement raises sqlite3.OperationalError and the call ends.
AddBusy(p) ==
    /\ Quiet
    /\ conn[p].pc = "connected"
    /\ lock \notin {0, p}
    /\ conn' = [conn EXCEPT ![p] = Idle]
    /\ justAppended' = 0
    /\ UNCHANGED <<rows, seq, clock, lock, started, commits, returned, listed, deleted,
                   adapterVars>>

\* line 48: conn.commit()
AddCommit(p) ==
    /\ Quiet
    /\ conn[p].pc = "inserted"
    /\ lock = p
    /\ rows' = rows \cup {conn[p].pending[1]}
    /\ seq' = conn[p].pending[1].id
    /\ lock' = 0
    /\ commits' = Append(commits, conn[p].pending[1].id)
    /\ conn' = [conn EXCEPT ![p].pc = "committed"]
    /\ justAppended' = 0
    /\ UNCHANGED <<clock, started, returned, listed, deleted, adapterVars>>

\* The largest rowid of the table, read after the commit, in place of the
\* cursor's own.
Table_maxrowid(p) == seq

\* cursor.lastrowid: the rowid of the last INSERT made through this cursor.
Cursor_lastrowid(p) == conn[p].lastrowid

\* lines 49-51: record_id = cursor.lastrowid; conn.close(); return record_id
AddReturn(p) ==
    /\ Quiet
    /\ conn[p].pc = "committed"
    /\ returned' = returned \cup {[tag |-> conn[p].tag, id |-> Cursor_lastrowid(p)]}
    /\ conn' = [conn EXCEPT ![p] = Idle]
    /\ justAppended' = Cursor_lastrowid(p)
    /\ UNCHANGED <<rows, seq, clock, lock, started, commits, listed, deleted, adapterVars>>

\* A second passes.
Tick ==
    /\ Quiet
    /\ clock < MaxClock
    /\ clock' = clock + 1
    /\ UNCHANGED <<rows, seq, lock, conn, started, commits, returned, justAppended,
                   listed, deleted, adapterVars>>

\* The sequences that hold every row of rs once.
RECURSIVE Orderings(_)
Orderings(rs) ==
    IF rs = {} THEN {<<>>}
    ELSE UNION {{<<r>> \o rest : rest \in Orderings(rs \ {r})} : r \in rs}

\* ORDER BY created_at DESC: the order of rows with equal created_at is whatever
\* the engine produces.
OrderByCreatedAtDesc(rs) ==
    {o \in Orderings(rs) :
        \A i \in 1..(Len(o) - 1) : o[i].created_at >= o[i + 1].created_at}

\* LIMIT ? OFFSET ?
LimitOffset(o, limit, offset) ==
    SubSeq(o, offset + 1, Min(Len(o), offset + limit))

Limits == {1, 2, 50}
Offsets == {0, 1, 2}

\* get_history, lines 53-78, on the committed rows
GetHistory ==
    /\ Quiet
    /\ \E limit \in Limits, offset \in Offsets, o \in OrderByCreatedAtDesc(rows) :
          listed' = [limit |-> limit, offset |-> offset, after |-> justAppended,
                     result |-> LimitOffset(o, limit, offset)]
    /\ justAppended' = 0
    /\ UNCHANGED <<rows, seq, clock, lock, conn, started, commits, returned, deleted,
                   adapterVars>>

\* clear_history, lines 80-86: DELETE FROM history and commit. sqlite_sequence
\* keeps the largest rowid.
ClearHistory ==
    /\ Quiet
    /\ lock = 0
    /\ rows # {}
    /\ rows' = {}
    /\ justAppended' = 0
    /\ UNCHANGED <<seq, clock, lock, conn, started, commits, returned, listed, deleted,
                   adapterVars>>

ItemIds == 1..(MaxAppends + 1)

\* src/routers/history.py, delete_history_item: history_manager.delete_history
\* is no attribute of HistoryManager, so the call raises AttributeError, which
\* the handler turns into HTTP 500. No statement reaches the database.
DeleteHistoryItem ==
    /\ Quiet
    /\ rows' = rows
    /\ \E item_id \in ItemIds :
          deleted' = [item_id |-> item_id, status |-> 500,
                      detail |-> "AttributeError", before |-> rows, after |-> rows']
    /\ justAppended' = 0
    /\ UNCHANGED <<seq, clock, lock, conn, started, commits, returned, listed,
                   adapterVars>>

\* The history router sends the response of the request it served.
Respond ==
    /\ ~Quiet
    /\ listed' = NoList
    /\ deleted' = NoDelete
    /\ UNCHANGED <<rows, seq, clock, lock, conn, started, commits, returned,
                   justAppended, adapterVars>>

HistoryNext ==
    \/ \E p \in Callers : AddConnect(p)
    \/ \E p \in Callers : AddInsert(p)
    \/ \E p \in Callers : AddBusy(p)
    \/ \E p \in Callers : AddCommit(p)
    \/ \E p \in Callers : AddReturn(p)
    \/ Tick
    \/ GetHistory
    \/ ClearHistory
    \/ DeleteHistoryItem
    \/ Respond

-----------------------------------------------------------------------------
(* Properties of the history store, checked under SpecHistory *)

\* C7: under any interleaving of add_history calls, the identifiers returned
\* are pairwise distinct, each call returns the identifier of the row it
\* inserted (the row holding its prompt), and identifiers are strictly
\* increasing in commit order.
AppendIdsDistinctOwnIncreasing ==
    /\ \A a, b \in returned : a.id = b.id => a.tag = b.tag
    /\ \A a \in returned : \A r \in rows : (r.prompt = a.tag) <=> (r.id = a.id)
    /\ \A i, j \in 1..Len(commits) : i < j => commits[i] < commits[j]

\* Two calls overlapped: one has returned the later identifier while the other,
\* which committed first, has yet to return, and both rows are stored.
OverlappingAppendsReached ==
    \E p \in Callers :
        /\ conn[p].pc = "committed"
        /\ \E a \in returned : a.id > conn[p].lastrowid /\ a.id \in {r.id : r \in rows}
        /\ conn[p].lastrowid \in {r.id : r \in rows}
        /\ Len(commits) >= 2

\* The identifiers assigned so far, those of cleared records included.
AssignedIds == {commits[i] : i \in 1..Len(commits)}

\* C30: across any sequence of appends and clears no identifier is assigned
\* twice: the identifier an append is assigned is greater than every identifier
\* assigned before it, those of records an intervening clear removed included,
\* and every identifier an append returns is one assigned in this way.
IdentifiersNeverReused ==
    /\ \A i, j \in 1..Len(commits) : i # j => commits[i] # commits[j]
    /\ \A p \in Callers :
          conn[p].pc = "inserted" => \A id \in AssignedIds : conn[p].lastrowid > id
    /\ \A a \in returned :
          \E k \in 1..Len(commits) :
             /\ a.id = commits[k]
             /\ \A i \in 1..(k - 1) : commits[i] < a.id
    /\ \A r \in rows : r.id \in AssignedIds

\* An append after a clear: the record of the first append is gone and the
\* second append returned a greater identifier.
AppendAfterClearReached ==
    /\ Len(commits) >= 2
    /\ commits[1] \notin {r.id : r \in rows}
    /\ \E a \in returned :
          /\ a.id = commits[2]
          /\ a.id > commits[1]
          /\ a.id \in {r.id : r \in rows}

\* C8: add_history immediately followed by get_history(limit=1) returns exactly
\* the record just appended, also when earlier records carry the same
\* created_at. Stated for an append that no other call overlaps and whose
\* record is the newest of the table.
AppendThenListOne ==
    (/\ listed # NoList
     /\ listed.after # 0
     /\ listed.limit = 1 /\ listed.offset = 0
     /\ listed.after = MaxId(rows)
     /\ \A p \in Callers : conn[p].pc = "idle")
        => (Len(listed.result) = 1 /\ listed.result[1].id = listed.after)

\* The one ordering of rs by created_at descending, ties by id descending.
CreatedAtDescIdDesc(rs) ==
    CHOOSE o \in Orderings(rs) :
        \A i \in 1..(Len(o) - 1) :
            \/ o[i].created_at > o[i + 1].created_at
            \/ o[i].created_at = o[i + 1].created_at /\ o[i].id > o[i + 1].id

\* C9: get_history(limit, offset) returns the rows ordered by created_at
\* descending, ties broken by id descending: the result is the slice of that one
\* ordering, so that successive pages neither repeat nor skip a row.
ListIsSliceOfTotalOrder ==
    listed # NoList =>
        listed.result = LimitOffset(CreatedAtDescIdDesc(rows), listed.limit, listed.offset)

\* C10: deleting an id that is not stored reports "not found" without error and
\* leaves the rows unchanged; deleting a stored id succeeds and removes exactly
\* that row.
DeleteRemovesExactlyOne ==
    deleted # NoDelete =>
        IF \E r \in deleted.before : r.id = deleted.item_id
        THEN /\ deleted.status = 200
             /\ deleted.after = {r \in deleted.before : r.id # deleted.item_id}
        ELSE /\ deleted.status = 404
             /\ deleted.after = deleted.before

-----------------------------------------------------------------------------
(* src/routers: the gateway. A handler runs from the request to the response   *)
(* in one step: it awaits one provider call and, where the code does so,       *)
(* writes one history record through add_history.                             *)

MaxRecords == 2     \* history records the gateway writes in a behaviour

\* The handler returned body: FastAPI answers HTTP 200 with it.
HttpOk(body) == [status |-> 200, body |-> body]

\* The handler raised HTTPException(status, detail).
HttpException(status, detail) == [status |-> status, detail |-> detail]

\* result.get(key, default) on an adapter result
ResultGet(result, key, default) == IF Has(result, key) THEN result[key] ELSE default

\* The handler made no provider call.
NoProviderCall == [outcome |-> "none", request |-> <<>>, result |-> [success |-> FALSE]]

\* What a handler did: the provider call, the history write (none, ok, raised),
\* the record written, the response.
Handled(call, write, record, response) ==
    [call |-> call, write |-> write, record |-> record, response |-> response]

\* A handler that answers without writing history.
NoWrite(call, response) == Handled(call, "none", <<>>, response)

\* The except clause of a handler: any exception becomes HTTP 500.
ExceptException(call, exc) == NoWrite(call, HttpException(500, exc))

\* history_manager.add_history(...) inside the handler's try block, then the
\* return: when add_history raises (the database is locked, full or not
\* writable), the except clause answers HTTP 500.
WriteThenAnswer_Swallowed(call, write, type, prompt, response, metadata, body) ==
    IF write = "raised"
    THEN Handled(call, "raised", <<>>, HttpOk(body))
    ELSE Handled(call, "ok",
                 <<[type |-> type, prompt |-> prompt, response |-> response,
                    metadata |-> metadata]>>,
                 HttpOk(body))

WriteThenAnswer(call, write, type, prompt, response, metadata, body) ==
    IF write = "raised"
    THEN Handled(call, "raised", <<>>, HttpException(500, "OperationalError"))
    ELSE Handled(call, "ok",
                 <<[type |-> type, prompt |-> prompt, response |-> response,
                    metadata |-> metadata]>>,
                 HttpOk(body))

\* A string as the content of a message; a list content is JList(parts), a null
\* content JNull, a message without the key "content" JAbsent.
JStr(s) == [t |-> "str", s |-> s]

\* An expression of the handler evaluated to value, or raised KeyError(key).
Value(value) == [raised |-> FALSE, value |-> value]
KeyError(key) == [raised |-> TRUE, value |-> "'" \o key \o "'"]

\* text_chat, line 50: next((p["text"] for p in prompt_text if p["type"] ==
\* "text"), ""): the subscripts raise KeyError on a part without the key.
RECURSIVE FirstTextPart(_)
FirstTextPart(parts) ==
    IF parts = <<>> THEN Value("")
    ELSE IF Head(parts).type = Absent THEN KeyError("type")
    ELSE IF Head(parts).type # "text" THEN FirstTextPart(Tail(parts))
    ELSE IF Head(parts).text = Absent THEN KeyError("text")
    ELSE Value(Head(parts).text)

\* text_chat, line 46: next((m for m in reversed(request.messages) if m["role"]
\* == "user"), None): the last message of role user, <<>> for None; m["role"]
\* raises KeyError on a message without the key.
RECURSIVE LastUserMessage(_)
LastUserMessage(messages) ==
    IF messages = <<>> THEN Value(<<>>)
    ELSE IF messages[Len(messages)].role = Absent THEN KeyError("role")
    ELSE IF messages[Len(messages)].role = "user" THEN Value(<<messages[Len(messages)]>>)
    ELSE LastUserMessage(SubSeq(messages, 1, Len(messages) - 1))

\* text_chat, lines 46-55: the prompt handed to add_history, str(prompt_text)
LastUserContent(messages) ==
    LET found(last_user_msg) ==
            IF last_user_msg.raised THEN last_user_msg
            ELSE IF last_user_msg.value = <<>> THEN Value("Unknown")
            ELSE IF last_user_msg.value[1].content.t = "absent" THEN KeyError("content")
            ELSE IF last_user_msg.value[1].content.t = "list"
            THEN FirstTextPart(last_user_msg.value[1].content.items)
            ELSE IF last_user_msg.value[1].content.t = "null" THEN Value("None")
            ELSE Value(last_user_msg.value[1].content.s)
    IN  Bind(LastUserMessage(messages), found)

\* src/routers/chat.py, text_chat
Router_text_chat(cs, request, t, write) ==
    IF request.service \notin {"mimo-chat", None, "chat"}
    THEN NoWrite(NoProviderCall,
                 HttpOk([success |-> FALSE,
                         message |-> "Unsupported chat service: " \o request.service]))
    ELSE
    LET chat_provider == IF request.service = "mimo-chat" THEN cs.mimo ELSE cs.chat
        answer(call) ==
            LET result == call.result
            IN  IF result.success
                THEN IF LastUserContent(request.messages).raised
                     THEN ExceptException(call, LastUserContent(request.messages).value)
                     ELSE WriteThenAnswer(call, write, "chat",
                                          LastUserContent(request.messages).value,
                                          result.message,
                                          [model |-> IF Truthy(request.model)
                                                     THEN request.model
                                                     ELSE chat_provider.model,
                                           service |-> request.service],
                                          result)
                ELSE NoWrite(call, HttpOk(result))
    IN  Bind(IF request.service = "mimo-chat"
                THEN Mimo_chat_completion(chat_provider, request.messages, request.model, t)
                ELSE ChatService_chat_completion(chat_provider, request.messages,
                                                 request.model, t), answer)

\* The image service a handler of src/routers/image.py calls, applied: Gemini
\* and Doubao are built per request with the configured credential and
\* request.model or the configured model; the others come from
\* get_image_service, which knows no further name.
Router_image_call(cs, service, model, prompt, aspect_ratio, image_size, reference, t) ==
    IF service = "gemini-image"
    THEN Gemini_generate_image([cs.gemini EXCEPT !.model = IF Truthy(model) THEN model ELSE @],
                               prompt, aspect_ratio, image_size, reference, t)
    ELSE IF service = "doubao-image"
    THEN Doubao_generate_image([cs.doubao EXCEPT !.model = IF Truthy(model) THEN model ELSE @],
                               prompt, aspect_ratio, image_size,
                               IF reference = None THEN NoReference ELSE StrRef(reference),
                               None, t)
    ELSE IF service = "dalle" THEN Dalle_generate_image(cs.dalle, prompt, t)
    ELSE IF service = "stable-diffusion" THEN StableDiffusion_generate_image(cs.sd, prompt, t)
    ELSE Raised("HTTPException 400")

\* src/routers/image.py, generate_image_from_chat. The HTTPException 400 of an
\* unknown service is raised inside the try block and caught by except Exception.
Router_generate_image_from_chat(cs, request, t, write) ==
    LET answer(call) ==
            LET result == call.result
            IN  IF call.outcome = "raised"
                THEN ExceptException(IF request.service \in {"gemini-image", "doubao-image", "dalle",
                                                             "stable-diffusion"}
                                     THEN call ELSE NoProviderCall,
                                     result.exception)
                ELSE IF result.success
                THEN WriteThenAnswer(call, write, "image", request.message,
                                     IF Truthy(ResultGet(result, "image_url", None))
                                     THEN result.image_url ELSE "base64_image",
                                     [service |-> request.service, model |-> request.model,
                                      aspect_ratio |-> request.aspect_ratio,
                                      image_size |-> request.image_size,
                                      image_data |-> ResultGet(result, "image_data", None)],
                                     [success |-> TRUE,
                                      message |-> ResultGet(result, "message", "image generated"),
                                      image_url |-> ResultGet(result, "image_url", None),
                                      image_data |-> ResultGet(result, "image_data", None),
                                      metadata |-> ResultGet(result, "metadata", <<>>)])
                ELSE NoWrite(call, HttpOk([success |-> FALSE,
                                           message |-> ResultGet(result, "message",
                                                                 "Image generation failed")]))
    IN  Bind(Router_image_call(cs, request.service, request.model, request.message,
                                  request.aspect_ratio, request.image_size,
                                  request.reference_image, t), answer)

\* src/routers/image.py, generate_image_api: no history is written; a failed
\* result becomes HTTPException 500, and HTTPException passes the except clauses.
Router_generate_image_api(cs, request, t) ==
    LET answer(call) ==
            LET result == call.result
            IN  IF call.outcome = "raised"
                THEN IF request.service \in {"gemini-image", "doubao-image", "dalle", "stable-diffusion"}
                     THEN ExceptException(call, result.exception)
                     ELSE NoWrite(NoProviderCall, HttpException(400, "Service not found"))
                ELSE IF result.success
                THEN NoWrite(call, HttpOk([success |-> TRUE,
                                           image_url |-> ResultGet(result, "image_url", None),
                                           image_data |-> ResultGet(result, "image_data", None),
                                           metadata |-> ResultGet(result, "metadata", <<>>),
                                           service |-> request.service]))
                ELSE NoWrite(call, HttpException(500, ResultGet(result, "error",
                                                                "Image generation failed")))
    IN  Bind(Router_image_call(cs, request.service, request.model, request.prompt,
                                  request.aspect_ratio, request.image_size,
                                  request.image_data, t), answer)

\* src/routers/video.py, generate_video (Sora)
Router_generate_video(cs, request, t, write) ==
    LET answer(call) ==
            LET result == call.result
            IN  IF result.success
                THEN WriteThenAnswer(call, write, "video", request.prompt,
                                     ResultGet(result, "video_url", "generated_video"),
                                     [service |-> "sora-video",
                                      orientation |-> request.orientation,
                                      duration |-> request.duration],
                                     [success |-> TRUE,
                                      video_url |-> ResultGet(result, "video_url", None),
                                      message |-> ResultGet(result, "message", "video generated"),
                                      metadata |-> ResultGet(result, "metadata", <<>>)])
                ELSE NoWrite(call, HttpOk([success |-> FALSE,
                                           message |-> ResultGet(result, "message",
                                                                 "video generation failed")]))
    IN  Bind(Sora_create_video(cs.sora, request.prompt, request.orientation,
                                  request.duration,
                                  IF Truthy(request.image_data) THEN <<request.image_data>>
                                  ELSE <<>>,
                                  t), answer)

ImageSupportedModels == {"veo3-fast-frames", "veo2-fast-frames", "veo2-fast-components"}

\* images[:k]
TakeFirst(images, k) == SubSeq(images, 1, Min(k, Len(images)))

Veo_limit_images_Unlimited(model, images) == images

\* generate_veo_video, lines 112-124: the images a model is limited to
Veo_limit_images(model, images) ==
    IF images # <<>> /\ model \in ImageSupportedModels
    THEN IF model = "veo3-fast-frames" THEN TakeFirst(images, 1)
         ELSE IF model = "veo2-fast-frames" THEN TakeFirst(images, 2)
         ELSE TakeFirst(images, 3)
    ELSE images

\* generate_veo_video, lines 87-124: the images passed to create_video and
\* has_images. request.images is a list (None and [] alike are <<>>).
Veo_request_images(request) ==
    LET given == IF request.images # <<>> THEN request.images
                 ELSE IF Truthy(request.image_data) THEN <<request.image_data>>
                 ELSE <<>>
        dropped == given # <<>> /\ request.model \notin ImageSupportedModels
        images == IF dropped THEN <<>> ELSE given
    IN  [images |-> Veo_limit_images(request.model, images),
         has_images |-> images # <<>>]

\* src/routers/video.py, generate_veo_video
Router_generate_veo_video(cs, request, t, write) ==
    LET chosen == Veo_request_images(request)
        answer(call) ==
            LET result == call.result
            IN  IF result.success
                THEN WriteThenAnswer(call, write, "video", request.prompt,
                                     ResultGet(result, "task_id", "unknown_task"),
                                     [service |-> "veo-video", model |-> request.model,
                                      aspect_ratio |-> request.aspect_ratio,
                                      task_id |-> ResultGet(result, "task_id", None),
                                      status |-> ResultGet(result, "status", None),
                                      has_images |-> chosen.has_images
                                                       /\ request.model \in ImageSupportedModels],
                                     [success |-> TRUE,
                                      task_id |-> ResultGet(result, "task_id", None),
                                      status |-> ResultGet(result, "status", None),
                                      message |-> ResultGet(result, "message", "VEO task created"),
                                      metadata |-> ResultGet(result, "metadata", <<>>)])
                ELSE NoWrite(call, HttpOk([success |-> FALSE,
                                           message |-> ResultGet(result, "message",
                                                                 "video generation failed")]))
    IN  Bind(Veo_create_video(cs.veo, request.prompt, request.model,
                                 request.aspect_ratio, chosen.images, t), answer)

\* src/routers/video.py, get_veo_video_status: no history is written
Router_get_veo_video_status(cs, task_id, t) ==
    LET answer(call) ==
            LET result == call.result
            IN  IF result.success
                THEN NoWrite(call, HttpOk([success |-> TRUE, task_id |-> task_id,
                                           status |-> ResultGet(result, "status", None),
                                           video_url |-> ResultGet(result, "video_url", None),
                                           message |-> ResultGet(result, "message", None),
                                           metadata |-> [enhanced_prompt |->
                                                           ResultGet(result, "enhanced_prompt", None)]]))
                ELSE NoWrite(call, HttpOk([success |-> FALSE,
                                           message |-> ResultGet(result, "message", "query failed")]))
    IN  Bind(Veo_query_video(cs.veo, task_id, t), answer)

\* src/routers/video_analysis.py, upload_and_analyze_video: save_video is no
\* attribute of VideoUploadService (it defines upload_video), so line 26 raises
\* AttributeError before any analysis and the handler answers HTTP 500.
Router_upload_and_analyze_video(cs, prompt) ==
    ExceptException(NoProviderCall, "AttributeError")

\* One request served: the handler's record goes to the history table as
\* add_history stores it (next rowid, CURRENT_TIMESTAMP), within the same step:
\* add_history does not await, so no other handler runs during it.
Serve(op, request, t, answered) ==
    \E handled \in {answered} :
    /\ seq < MaxRecords
    /\ lock = 0
    /\ last' = [op |-> op, request |-> request, transport |-> t] @@ handled
    /\ IF handled.record # <<>>
       THEN /\ rows' = rows \cup {handled.record[1]
                                    @@ [id |-> NextRowId, created_at |-> clock]}
            /\ seq' = NextRowId
            /\ commits' = Append(commits, NextRowId)
       ELSE UNCHANGED <<rows, seq, commits>>
    /\ UNCHANGED <<clients, clock, lock, conn, started, returned, justAppended,
                   listed, deleted>>

\* add_history returns or raises.
WriteOutcomes == {"ok", "raised"}

\* A 200 answer with which the provider behind an image service succeeds.
GoodImageAnswer(service) ==
    IF service = "gemini-image"
    THEN [candidates |-> JList(<<[content |-> JObj([parts |->
              <<[inlineData |-> JObj([data |-> "QUJD", mimeType |-> Absent]),
                 text |-> Absent]>>])]>>)]
    ELSE IF service = "doubao-image"
    THEN [data |-> JList(<<[b64_json |-> Absent, url |-> "http://img/1.png",
                            mime_type |-> Absent]>>)]
    ELSE IF service = "dalle"
    THEN [data |-> JList(<<[url |-> "http://img/1.png"]>>)]
    ELSE [artifacts |-> JList(<<[base64 |-> "QUJD"]>>)]

ImageServices == {"gemini-image", "doubao-image", "dalle", "stable-diffusion", "midjourney"}

\* The parts of a list content: a text part, an image part, and parts without
\* the key "type" or the key "text".
TextPart(text) == [type |-> "text", text |-> text]
ImagePart == [type |-> "image_url", text |-> Absent]
UntypedPart == [type |-> Absent, text |-> "look"]
TextlessPart == [type |-> "text", text |-> Absent]

UserMessage(content) == [role |-> "user", content |-> content]
AssistantMessage == [role |-> "assistant", content |-> JStr("hello")]

\* The message lists of the requests: List[Dict[str, Any]] admits every one.
ChatMessageLists ==
    {<<>>,
     <<UserMessage(JStr("hi"))>>,
     <<[role |-> "system", content |-> JStr("be brief")], AssistantMessage>>,
     <<UserMessage(JStr("hi")), AssistantMessage, UserMessage(JStr("bye")),
       AssistantMessage>>,
     <<UserMessage(JList(<<ImagePart, TextPart("what is this"), TextPart("and this")>>))>>,
     <<UserMessage(JList(<<ImagePart>>))>>,
     <<UserMessage(JNull)>>,
     <<UserMessage(JStr("hi")), [role |-> Absent, content |-> JStr("note")]>>,
     <<UserMessage(JAbsent)>>,
     <<UserMessage(JList(<<UntypedPart, TextPart("what is this")>>))>>,
     <<UserMessage(JList(<<ImagePart, TextlessPart>>))>>}

TextChat ==
    /\ last = NoCall
    /\ \E service \in {"chat", "mimo-chat", "claude"},
          messages \in ChatMessageLists,
          t \in {TimeoutT, Ok([choices |-> JList(<<>>)]),
                 Ok([choices |-> JList(<<[message |-> JObj([content |-> "hello"])]>>)])},
          write \in WriteOutcomes :
           LET request == [service |-> service, messages |-> messages, model |-> None]
           IN  Serve("text_chat", request, t, Router_text_chat(clients, request, t, write))

GenerateImageFromChat ==
    /\ last = NoCall
    /\ \E service \in ImageServices, image_size \in {"1K"}, write \in WriteOutcomes :
         \E t \in {TimeoutT, Ok(GoodImageAnswer(service))} :
           LET request == [service |-> service, message |-> Prompt, model |-> None,
                           aspect_ratio |-> "1:1", image_size |-> image_size,
                           reference_image |-> None]
           IN  Serve("generate_image_from_chat", request, t,
                     Router_generate_image_from_chat(clients, request, t, write))

GenerateImageApi ==
    /\ last = NoCall
    /\ \E service \in ImageServices, image_size \in {"1K", None} :
         \E t \in {TimeoutT, Ok(GoodImageAnswer(service))} :
           LET request == [service |-> service, prompt |-> Prompt, model |-> None,
                           aspect_ratio |-> "1:1", image_size |-> image_size,
                           image_data |-> None]
           IN  Serve("generate_image_api", request, t,
                     Router_generate_image_api(clients, request, t))

GenerateVideo ==
    /\ last = NoCall
    /\ \E orientation \in {"portrait", "landscape", "sideways"}, duration \in {<<15>>, <<10>>},
          t \in {TimeoutT, Ok([id |-> "task-1", status |-> "pending"])},
          write \in WriteOutcomes :
           LET request == [prompt |-> Prompt, orientation |-> orientation,
                           duration |-> duration, image_data |-> None]
           IN  Serve("generate_video", request, t,
                     Router_generate_video(clients, request, t, write))

GenerateVeoVideo ==
    /\ last = NoCall
    /\ \E model \in ImageSupportedModels \cup {"veo3", None},
          images \in {<<>>, <<"img1", "img2", "img3", "img4", "img5">>},
          image_data \in {None, "img0"},
          t \in {TimeoutT, Ok([id |-> "task-1", status |-> "pending"])},
          write \in WriteOutcomes :
           LET request == [prompt |-> Prompt, model |-> model, aspect_ratio |-> "16:9",
                           images |-> images, image_data |-> image_data]
           IN  Serve("generate_veo_video", request, t,
                     Router_generate_veo_video(clients, request, t, write))

GetVeoVideoStatus ==
    /\ last = NoCall
    /\ \E t \in {TimeoutT, Ok([status |-> "completed", video_url |-> "http://v/1.mp4"]),
                 Ok([status |-> "failed", video_url |-> Absent])} :
           Serve("get_veo_video_status", [task_id |-> "task-1"], t,
                 Router_get_veo_video_status(clients, "task-1", t))

UploadAndAnalyzeVideo ==
    /\ last = NoCall
    /\ Serve("upload_and_analyze_video", [prompt |-> Prompt], TimeoutT,
             Router_upload_and_analyze_video(clients, Prompt))

GatewayNext ==
    \/ Handback
    \/ TextChat
    \/ GenerateImageFromChat
    \/ GenerateImageApi
    \/ GenerateVideo
    \/ GenerateVeoVideo
    \/ GetVeoVideoStatus
    \/ UploadAndAnalyzeVideo

-----------------------------------------------------------------------------
(* src/services/doubao_image.py: _build_size and _parse_ratio as functions *)

MaxRatio == 21      \* the largest W and H of an aspect ratio W:H

SizeClasses == {"1K", "2K", "4K"}

RatioString(w, h) == ToString(w) \o ":" \o ToString(h)

\* Strings that are not W:H with two positive integers, and two that are.
RatioStrings == {"abc", "1:0", "", "0:5", "-3:4", "16:9:1", "16:9", "1:1"}

BuildSize ==
    /\ last = NoCall
    /\ \E w \in 1..MaxRatio, h \in 1..MaxRatio, image_size \in SizeClasses \cup {"2k", "8K"} :
          last' = [op |-> "Doubao._build_size",
                   args |-> [aspect_ratio |-> RatioString(w, h), image_size |-> image_size],
                   result |-> Doubao_dimensions(RatioString(w, h), image_size)]
    /\ UNCHANGED <<clients, historyVars>>

ParseRatio ==
    /\ last = NoCall
    /\ \E ratio \in RatioStrings :
          last' = [op |-> "Doubao._parse_ratio", args |-> [ratio |-> ratio],
                   result |-> Doubao_parse_ratio(ratio)]
    /\ UNCHANGED <<clients, historyVars>>

\* Reference images as the callers of _ensure_data_url may hand them over: bare
\* base64, data URLs, either with whitespace around it, and the empty string.
ReferenceStrings ==
    {"", " ", "QUJD", " QUJD ", "QUJD\n", "data:", "data:image/png;base64,QUJD",
     "data:image/jpeg;base64,QUJD", "data:image/png;base64,QUJD\n",
     " data:image/png;base64,QUJD", "DATA:image/png;base64,QUJD", "http://img/1.png"}

\* _ensure_data_url on value, and on its own output
EnsureDataUrl ==
    /\ last = NoCall
    /\ \E value \in ReferenceStrings :
          \E result \in {Doubao_ensure_data_url(value)} :
             last' = [op |-> "Doubao._ensure_data_url", args |-> [value |-> value],
                      result |-> result, again |-> Doubao_ensure_data_url(result)]
    /\ UNCHANGED <<clients, historyVars>>

SizeNext == Handback \/ BuildSize \/ ParseRatio \/ EnsureDataUrl

\* The base dimension of a size class.
BaseDimension(image_size) ==
    IF image_size = "1K" THEN 1024 ELSE IF image_size = "2K" THEN 2048 ELSE 4096

\* s is W:H with positive integers W and H.
PositiveRatio(s) == \E w \in 1..MaxRatio, h \in 1..MaxRatio : s = RatioString(w, h)

\* C16: for an aspect ratio W:H of positive integers and a size class 1K, 2K or
\* 4K, the width and the height both lie in 512..4096 and the longer of the two
\* is the base dimension of the size class (1024, 2048, 4096).
SizeWithinRangeLongerSideBase ==
    (last.op = "Doubao._build_size" /\ PositiveRatio(last.args.aspect_ratio)
       /\ last.args.image_size \in SizeClasses) =>
        /\ last.result[1] \in 512..4096
        /\ last.result[2] \in 512..4096
        /\ Max(last.result[1], last.result[2]) = BaseDimension(last.args.image_size)

\* A narrow ratio, whose shorter side is raised to 512.
NarrowRatioSizeReached ==
    /\ last.op = "Doubao._build_size"
    /\ last.args = [aspect_ratio |-> "21:9", image_size |-> "1K"]
    /\ last.result = <<1024, 512>>

\* The base dimension the reference computation gives a size-class string:
\* 1K, 2K, 4K in either case, 1024 for anything else.
ReferenceBase(image_size) ==
    IF image_size \in {"2K", "2k"} THEN 2048
    ELSE IF image_size \in {"4K", "4k"} THEN 4096
    ELSE 1024

\* The reference computation for the ratio w:h: the larger side is the base,
\* the smaller side round(base * min / max), both clamped to 512..4096.
ReferenceSize(w, h, image_size) ==
    LET base == ReferenceBase(image_size)
        larger == Max(512, Min(4096, base))
        smaller == Max(512, Min(4096, RoundDiv(base * Min(w, h), Max(w, h))))
    IN  IF w >= h THEN <<larger, smaller>> ELSE <<smaller, larger>>

\* C24: the size derived for an aspect ratio and a size-class string equals the
\* reference computation: base 1024/2048/4096 for 1K/2K/4K in either case and
\* 1024 otherwise, larger side the base, smaller side round(base * min / max),
\* both clamped to 512..4096; equal ratio terms give base x base.
SizeEqualsReference ==
    last.op = "Doubao._build_size" =>
        \A w \in 1..MaxRatio, h \in 1..MaxRatio :
            last.args.aspect_ratio = RatioString(w, h) =>
                /\ last.result = ReferenceSize(w, h, last.args.image_size)
                /\ w = h => last.result[1] = last.result[2]

LowerCaseSizeClassReached ==
    /\ last.op = "Doubao._build_size"
    /\ last.args = [aspect_ratio |-> "16:9", image_size |-> "2k"]
    /\ last.result = <<2048, 1152>>

\* C17: an aspect_ratio string that is not W:H with two positive integers is
\* parsed as 1:1.
MalformedRatioIsOneToOne ==
    (last.op = "Doubao._parse_ratio" /\ ~PositiveRatio(last.args.ratio)) =>
        last.result = <<1, 1>>

PngHeader == "data:image/png;base64,"

\* C29 as stated: the reference-image normalizer returns an input that starts
\* with "data:" unchanged, prepends the image/png data-URL header to any other
\* input, and applied to its own output returns that output.
PrefixedUnchangedElseHeaderPrepended ==
    last.op = "Doubao._ensure_data_url" =>
        /\ StartsWith(last.args.value, "data:") => last.result = last.args.value
        /\ ~StartsWith(last.args.value, "data:")
              => last.result = PngHeader \o last.args.value
        /\ last.again = last.result

\* C29, amended: the normalizer returns the empty string as it is; of any other
\* input it takes the whitespace-stripped text, returns it when it starts with
\* "data:" and prepends the image/png data-URL header to it otherwise; applied
\* to its own output it returns that output.
StrippedThenPrefixedOrHeaderPrepended ==
    last.op = "Doubao._ensure_data_url" =>
        /\ last.args.value = "" => last.result = ""
        /\ (last.args.value # "" /\ StartsWith(Strip(last.args.value), "data:"))
              => last.result = Strip(last.args.value)
        /\ (last.args.value # "" /\ ~StartsWith(Strip(last.args.value), "data:"))
              => last.result = PngHeader \o Strip(last.args.value)
        /\ last.again = last.result

\* A data URL with whitespace around it comes back stripped, and is returned as
\* it is when normalized again.
PaddedDataUrlStrippedReached ==
    /\ last.op = "Doubao._ensure_data_url"
    /\ last.args.value = "data:image/png;base64,QUJD\n"
    /\ last.result = "data:image/png;base64,QUJD"
    /\ last.again = last.result

-----------------------------------------------------------------------------
(* The gateway: history records and what reaches the provider *)

\* The provider call of the request served last ended with success = true.
ProviderSucceeded == last.call.outcome = "returned" /\ last.call.result.success

RecordAppended == last.record # <<>>

\* C11: in every gateway operation a successful provider result appends exactly
\* one history record and a failed one appends none (the history write itself
\* not failing).
OneRecordPerSuccess ==
    (CallEnded /\ last.write # "raised") => (RecordAppended <=> ProviderSucceeded)

\* C12: when add_history fails after a successful provider call, the caller gets
\* an error response, in every operation that writes history; no success
\* response goes out with the record missing.
HistoryWriteFailureIsError ==
    (CallEnded /\ ProviderSucceeded /\ last.write = "raised")
        => /\ last.response.status >= 400
           /\ ~RecordAppended

HistoryWriteFailedReached ==
    /\ CallEnded /\ ProviderSucceeded /\ last.write = "raised"
    /\ last.op = "text_chat"

\* The images of the request the provider got (the payload has no "images" key
\* when none are forwarded).
ForwardedImages ==
    LET payload == last.call.request[1]
    IN  IF Has(payload, "images") THEN payload.images ELSE <<>>

\* The images the caller supplied: the images array, or the single image_data.
SuppliedImages ==
    IF last.request.images # <<>> THEN last.request.images
    ELSE IF last.request.image_data \notin {None, ""} THEN <<last.request.image_data>>
    ELSE <<>>

\* The number of images a model takes; none for a model off the allow-list.
ModelMaxImages(model) ==
    IF model = "veo3-fast-frames" THEN 1
    ELSE IF model = "veo2-fast-frames" THEN 2
    ELSE IF model = "veo2-fast-components" THEN 3
    ELSE 0

VeoCreateSent ==
    CallEnded /\ last.op = "generate_veo_video" /\ last.call.request # <<>>

\* C13: a VEO create request forwards the first k supplied images, k the
\* maximum of the requested model (1, 2, 3 for the three allow-listed models),
\* and none for any other model, whether the input came in images or image_data.
VeoForwardsFirstK ==
    VeoCreateSent =>
        LET k == Min(ModelMaxImages(last.request.model), Len(SuppliedImages))
        IN  ForwardedImages = [i \in 1..k |-> SuppliedImages[i]]

VeoTruncatedReached ==
    /\ VeoCreateSent
    /\ last.request.model = "veo2-fast-frames"
    /\ Len(last.request.images) > 2
    /\ Len(ForwardedImages) = 2

\* C14: a Sora create request with an orientation that is neither portrait nor
\* landscape sends "landscape" to the provider and stores "landscape" in the
\* metadata of the history record it appends.
InvalidOrientationStoredAsLandscape ==
    (/\ CallEnded /\ last.op = "generate_video"
     /\ last.request.orientation \notin {"portrait", "landscape"}
     /\ last.call.request # <<>>
     /\ RecordAppended)
        => /\ last.call.request[1].orientation = "landscape"
           /\ last.record[1].metadata.orientation = "landscape"
           /\ \A row \in rows : row.id = seq => row.metadata.orientation = "landscape"

\* The request served last was answered 200 with success = true.
SuccessResponse ==
    CallEnded /\ last.response.status = 200 /\ last.response.body.success

\* C23: a successful response carries the payload of its operation: a
\* successful Sora video creation returns the task identifier that create_video
\* produced.
SoraCreateReturnsTaskId ==
    (SuccessResponse /\ last.op = "generate_video") =>
        /\ Has(last.response.body, "task_id")
        /\ last.response.body.task_id = last.call.result.task_id

\* The positions of the messages of role user, and of the parts typed text.
UserPositions(messages) == {i \in 1..Len(messages) : messages[i].role = "user"}
TextPositions(parts) == {i \in 1..Len(parts) : parts[i].type = "text"}

\* The text of a content: the string itself, the text of the first part typed
\* text of a list (empty when there is none), the string form of a null.
ContentText(content) ==
    IF content.t = "list"
    THEN IF TextPositions(content.items) = {} THEN ""
         ELSE content.items[CHOOSE i \in TextPositions(content.items) :
                               \A j \in TextPositions(content.items) : i <= j].text
    ELSE IF content.t = "str" THEN content.s
    ELSE IF content.t = "null" THEN "None"
    ELSE Absent

\* The prompt of the last message of role user, the placeholder without one.
ExpectedPrompt(messages) ==
    IF UserPositions(messages) = {} THEN "Unknown"
    ELSE ContentText(messages[CHOOSE i \in UserPositions(messages) :
                                 \A j \in UserPositions(messages) : j <= i].content)

ChatSucceeded ==
    /\ CallEnded /\ last.op = "text_chat"
    /\ ProviderSucceeded /\ last.write # "raised"

\* C28: after a successful chat completion the history write completes
\* without error, whatever the message list of the request, and the prompt
\* stored is the content of the last message of role user: the text of the first
\* part typed text when the content is a list (empty when there is none), the
\* placeholder when no message has role user.
StoredPromptIsLastUserText ==
    ChatSucceeded
        => /\ last.response.status = 200
           /\ RecordAppended
           /\ last.record[1].prompt = ExpectedPrompt(last.request.messages)

\* The same on the requests whose messages all have a role, whose last user
\* message has a content, and whose parts have the keys the handler subscripts.
KeysPresent ==
    /\ \A i \in 1..Len(last.request.messages) :
          /\ last.request.messages[i].role # Absent
          /\ last.request.messages[i].content.t # "absent"
          /\ last.request.messages[i].content.t = "list"
                => \A k \in 1..Len(last.request.messages[i].content.items) :
                      /\ last.request.messages[i].content.items[k].type # Absent
                      /\ last.request.messages[i].content.items[k].type = "text"
                            => last.request.messages[i].content.items[k].text # Absent

StoredPromptWhereKeysPresent ==
    (ChatSucceeded /\ KeysPresent)
        => /\ last.response.status = 200
           /\ RecordAppended
           /\ last.record[1].prompt = ExpectedPrompt(last.request.messages)

\* A successful chat completion answered with HTTP 500, no record written and
\* add_history never called.
ChatExtractionRaisedReached ==
    /\ ChatSucceeded
    /\ last.write = "none"
    /\ last.response.status = 500

-----------------------------------------------------------------------------
(* Specifications *)

HistoryInit ==
    /\ rows = {}
    /\ seq = 0
    /\ clock = 0
    /\ lock = 0
    /\ conn = [p \in Callers |-> Idle]
    /\ started = 0
    /\ commits = <<>>
    /\ returned = {}
    /\ justAppended = 0
    /\ listed = NoList
    /\ deleted = NoDelete

Init ==
    /\ \E k \in ApiKeys, m \in GeminiModels : clients = Clients(k, m)
    /\ last = NoCall
    /\ HistoryInit

Next == AdapterNext \/ HistoryNext \/ GatewayNext \/ SizeNext

Spec == Init /\ [][Next]_vars

\* The adapters alone, on clients of every credential.
SpecAdapter == Init /\ [][AdapterNext]_vars

\* The history store alone.
StoreInit ==
    /\ clients = Clients("sk-key", "gemini-2.5-flash-image")
    /\ last = NoCall
    /\ HistoryInit

SpecHistory == StoreInit /\ [][HistoryNext]_vars

\* The gateway alone, with and without configured credentials.
GatewayInit ==
    /\ \E k \in {"", "sk-key"} : clients = Clients(k, "gemini-2.5-flash-image")
    /\ last = NoCall
    /\ HistoryInit

SpecGateway == GatewayInit /\ [][GatewayNext]_vars

\* The size functions of the Doubao adapter alone.
SpecSize == StoreInit /\ [][SizeNext]_vars

====
